---- MODULE Spec2Model ----
(***************************************************************************)
(* A model of srctools' BSP container codec (bsp.py): BSP.read, BSP.save,  *)
(* the game-lump directory and the static-prop game lump.  Files and lumps *)
(* are sequences of bytes (0..255), laid out as the code lays them out.    *)
(***************************************************************************)
EXTENDS Integers, Sequences, FiniteSets, TLC

VARIABLES
    pc,        \* position of the caller: "new", "loaded", "saved", "reread", "failed"
    disk,      \* bytes of the file the object was read from or last saved to
    path,      \* the path of that file
    declared,  \* the version argument given to the constructor
    bsp,       \* the BSP object (NoBsp before construction / after a failed read)
    err,       \* the exception raised by the last operation, "none" if none
    edits,     \* assignments the caller has made to the object since its read
    wlog,      \* the payloads written by the last save, with their positions
    bsp2,      \* the object built by reading the saved file again
    input      \* the bytes of the file as first given

containerVars == <<pc, disk, path, declared, bsp, err, edits, wlog, bsp2, input>>

VARIABLES
    sp_pc,     \* static props: "idle", "start", "decoding", "decoded", "encoded", "redecoding", "redecoded", "failed"
    sp_game,   \* the game_lumps dict of the BSP holding (or not) the sprp lump
    sp_props,  \* the list of StaticProp in memory
    sp_err,    \* the exception raised by the last static-prop operation
    sp_last,   \* the last static-prop operation: "none", "yield", "decode", "encode"
    sp_given,  \* what the caller started from: a lump ("file") or props ("mem")
    sp_gen,    \* the frame of the suspended static_props generator, or None
    sp_wrote   \* the list last given to write_static_props, or None

propVars == <<sp_pc, sp_game, sp_props, sp_err, sp_last, sp_given, sp_gen, sp_wrote>>

VARIABLES
    ent_pc,    \* entity lump: "idle", "start", "read", "written", "reread", "failed"
    ent_lump,  \* the bytes of the ENTITIES lump as given
    ent_vmf,   \* the VMF read_ent_data returned (NoVMF before / on failure)
    ent_err,   \* the exception raised by the last entity operation
    ent_text,  \* the bytes write_ent_data returned
    ent_vmf2   \* the VMF read from ent_text

entVars == <<ent_pc, ent_lump, ent_vmf, ent_err, ent_text, ent_vmf2>>

VARIABLES
    pak_pc,    \* packfile scope: "idle", "start", "open", "closed", "raised"
    pak_bsp,   \* the BSP object whose PAKFILE lump is edited
    pak_zip,   \* the ZipFile handle of the scope (NoZip outside it)
    pak_old    \* the BSP object as it was when the scope was entered

pakVars == <<pak_pc, pak_bsp, pak_zip, pak_old>>

VARIABLES
    vis_pc,    \* vis tree: "idle", "start", "built", "failed"
    vis_bsp,   \* the version and the PLANES, NODES and LEAFS lumps of the BSP
    vis_out,   \* what vis_tree returned: the linked nodes, the leafs, the root
    vis_err    \* the exception vis_tree raised

visVars == <<vis_pc, vis_bsp, vis_out, vis_err>>

VARIABLES
    tex_pc,    \* texture names: "idle", "start", "running", "done", "failed"
    tex_bsp,   \* the TEXDATA_STRING_DATA and TEXDATA_STRING_TABLE lumps of the BSP
    tex_pos,   \* how many offsets of the table the generator has gone past
    tex_names, \* the names the generator has yielded, in order
    tex_err    \* the exception the generator raised

texVars == <<tex_pc, tex_bsp, tex_pos, tex_names, tex_err>>

VARIABLES
    ang_pc,    \* Angle: "idle", "live"
    ang,       \* the Angle object the caller holds
    ang_mat,   \* the Matrix of the open transform() scope, None outside one
    ang_last,  \* the last operation on the Angle, with its arguments
    ang_err,   \* the exception the last operation raised
    ang_ops    \* how many operations the caller has made

angVars == <<ang_pc, ang, ang_mat, ang_last, ang_err, ang_ops>>

VARIABLES
    rot_pc,    \* rotations: "idle", "start", "done"
    rot_in,    \* the Angles a and b and the Vec v the caller holds (None where not used)
    rot_out    \* what the caller computed from them

rotVars == <<rot_pc, rot_in, rot_out>>

VARIABLES
    ax_pc,     \* axis of a Vec: "idle", "start", "done", "failed"
    ax_vec,    \* the Vec the caller holds
    ax_call,   \* the method the caller called, with its argument
    ax_out,    \* what the method returned
    ax_err     \* the exception the method raised

axVars == <<ax_pc, ax_vec, ax_call, ax_out, ax_err>>

VARIABLES
    grid_pc,   \* iter_grid: "idle", "start", "running", "done"
    grid_in,   \* the min_pos, max_pos and stride given to iter_grid
    grid_out   \* the points the generator has yielded, in order

gridVars == <<grid_pc, grid_in, grid_out>>

VARIABLES
    sv_pc,     \* save: "idle", "call", "open", "lumps", "patched", "done", "failed"
    sv_bsp,    \* save: the object that is saved
    sv_filename, \* save: the filename argument
    sv_dest,   \* save: the path the writer was opened for
    sv_files,  \* save: the files on disk, by path
    sv_old,    \* save: the files on disk when save was called
    sv_w,      \* save: the writer on the open file
    sv_k,      \* save: the position in LUMP_WRITE_ORDER
    sv_err     \* save: the exception that left save, or "none"

saveVars == <<sv_pc, sv_bsp, sv_filename, sv_dest, sv_files, sv_old, sv_w, sv_k, sv_err>>

\* the variables each operation group leaves alone
nonContainerVars == <<propVars, entVars, pakVars, visVars, texVars, angVars, rotVars, axVars, gridVars, saveVars>>
nonPropVars == <<containerVars, entVars, pakVars, visVars, texVars, angVars, rotVars, axVars, gridVars, saveVars>>
nonEntVars == <<containerVars, propVars, pakVars, visVars, texVars, angVars, rotVars, axVars, gridVars, saveVars>>
nonPakVars == <<containerVars, propVars, entVars, visVars, texVars, angVars, rotVars, axVars, gridVars, saveVars>>
nonVisVars == <<containerVars, propVars, entVars, pakVars, texVars, angVars, rotVars, axVars, gridVars, saveVars>>

nonTexVars == <<containerVars, propVars, entVars, pakVars, visVars, angVars, rotVars, axVars, gridVars, saveVars>>

nonAngVars == <<containerVars, propVars, entVars, pakVars, visVars, texVars, rotVars, axVars, gridVars, saveVars>>

nonRotVars == <<containerVars, propVars, entVars, pakVars, visVars, texVars, angVars, axVars, gridVars, saveVars>>

nonAxVars == <<containerVars, propVars, entVars, pakVars, visVars, texVars, angVars, rotVars, gridVars, saveVars>>

nonGridVars == <<containerVars, propVars, entVars, pakVars, visVars, texVars, angVars, rotVars, axVars, saveVars>>

nonSaveVars == <<containerVars, propVars, entVars, pakVars, visVars, texVars, angVars, rotVars, axVars, gridVars>>

vars == <<containerVars, propVars, entVars, pakVars, visVars, texVars, angVars, rotVars, axVars, gridVars, saveVars>>

(***************************************************************************)
(* Bytes and the struct formats                                            *)
(***************************************************************************)
Byte == 0..255

Min(a, b) == IF a < b THEN a ELSE b

Max(a, b) == IF a > b THEN a ELSE b

\* bytes(n)
Zeros(n) == [i \in 1..n |-> 0]

\* bytes[::-1]
Reverse(s) == [i \in 1..Len(s) |-> s[Len(s) + 1 - i]]

\* struct '<i': a signed 32-bit little-endian integer
PackI32(v) ==
    << v % 256, (v \div 256) % 256, (v \div 65536) % 256, (v \div 16777216) % 256 >>

UnpackI32(b) ==
    b[1] + 256 * b[2] + 65536 * b[3]
      + 16777216 * (IF b[4] >= 128 THEN b[4] - 256 ELSE b[4])

\* struct '<H': an unsigned 16-bit little-endian integer
PackU16(v) == << v % 256, (v \div 256) % 256 >>

UnpackU16(b) == b[1] + 256 * b[2]

\* file.seek(off); file.read(n) on the file opened 'br': seek raises OSError
\* for a negative offset, read raises ValueError for a length below -1; the
\* data is short at the end of the file, and all of the rest when n is -1
ReadAt(f, off, n) ==
    IF off < 0 THEN [err |-> "OSError", data |-> <<>>]
    ELSE IF n < -1 THEN [err |-> "ValueError", data |-> <<>>]
    ELSE [err |-> "none",
          data |-> IF n = -1 THEN SubSeq(f, off + 1, Len(f))
                   ELSE SubSeq(f, off + 1, Min(off + n, Len(f)))]

\* struct_read(fmt, file) at position off: the bytes, or <<>> when the file
\* is too short (struct.error)
HasBytes(f, off, n) == off >= 0 /\ off + n <= Len(f)

(***************************************************************************)
(* Constants of bsp.py                                                     *)
(***************************************************************************)
BSP_MAGIC == <<86, 66, 83, 80>>     \* b'VBSP'

HEADER_1_SIZE == 8

HEADER_LUMP_SIZE == 16

HEADER_2_SIZE == 4

LUMP_COUNT == 64

GAME_LUMP == 35

PAKFILE == 40

BSP_LUMPS == 0..(LUMP_COUNT - 1)

\* the values of the VERSIONS enum
VERSIONS == {17, 18, 19, 20, 21, 22, 23, 29, 42}

\* (variant: the lumps are written in index order)
LUMP_WRITE_ORDER_Index == [i \in 1..LUMP_COUNT |-> i - 1]

\* list(BSP_LUMPS) with PAKFILE removed and appended
LUMP_WRITE_ORDER ==
    [i \in 1..LUMP_COUNT |->
        IF i = LUMP_COUNT THEN PAKFILE
        ELSE IF i - 1 < PAKFILE THEN i - 1 ELSE i]

GAMELUMP_ST_SIZE == 16

(***************************************************************************)
(* The objects of bsp.py                                                   *)
(***************************************************************************)
\* Lump(typ, version, ident): data starts empty
Lump(version, ident) == [version |-> version, ident |-> ident, data |-> <<>>]

\* GameLump(lump_id, flags, version, data)
GameLump(id, flags, version, data) ==
    [id |-> id, flags |-> flags, version |-> version, data |-> data]

\* BSP.version: None, a member of VERSIONS, or a plain integer
NoVersion == [kind |-> "None", value |-> 0]

EnumVersion(v) == [kind |-> "VERSIONS", value |-> v]

IntVersion(v) == [kind |-> "int", value |-> v]

NoBsp == [version |-> NoVersion, map_revision |-> -1,
          lumps |-> <<>>, game_lumps |-> <<>>]

\* self.game_lumps[game_lump_id] = GameLump(...): a dict keeps the position
\* of a key that is assigned again
DictSet(d, g) ==
    IF \E i \in 1..Len(d) : d[i].id = g.id
    THEN [i \in 1..Len(d) |-> IF d[i].id = g.id THEN g ELSE d[i]]
    ELSE Append(d, g)

(***************************************************************************)
(* BSP.read                                                                *)
(***************************************************************************)
\* assert magic_name == BSP_MAGIC
MagicOk(magic_name) == magic_name = BSP_MAGIC

\* (variant: a number the table does not have falls back to VER_20)
AdoptVersion_Fallback(bsp_version) ==
    IF bsp_version \in VERSIONS THEN EnumVersion(bsp_version)
    ELSE EnumVersion(20)

\* self.version is None: VERSIONS(bsp_version), or the integer itself when
\* the table does not have it
AdoptVersion(bsp_version) ==
    IF bsp_version \in VERSIONS THEN EnumVersion(bsp_version)
    ELSE IntVersion(bsp_version)

\* assert bsp_version == self.version (a VERSIONS member equals its value)
VersionOk(want, bsp_version) == bsp_version = want.value

\* "The lump ID is backward..": game_lump_id[::-1]
GameLumpIdInMemory(disk_id) == Reverse(disk_id)

\* position of directory entry i in the file
EntryPos(i) == HEADER_1_SIZE + HEADER_LUMP_SIZE * i

RevisionPos == HEADER_1_SIZE + HEADER_LUMP_SIZE * LUMP_COUNT

\* struct_read(HEADER_LUMP, file) for entry i: offset, length, version, ident
ReadEntry(f, i) ==
    LET p == EntryPos(i) IN
    [offset  |-> UnpackI32(SubSeq(f, p + 1, p + 4)),
     length  |-> UnpackI32(SubSeq(f, p + 5, p + 8)),
     version |-> UnpackI32(SubSeq(f, p + 9, p + 12)),
     ident   |-> SubSeq(f, p + 13, p + 16)]

\* the loop over the game-lump directory held in game_lump.data (gl):
\* k entries left, lump_offset off, the dict built so far in acc
RECURSIVE ReadGameLumps(_, _, _, _, _)
ReadGameLumps(f, gl, k, off, acc) ==
    IF k <= 0 THEN [err |-> "none", game_lumps |-> acc]
    ELSE IF ~HasBytes(gl, off, GAMELUMP_ST_SIZE)
    THEN [err |-> "struct.error", game_lumps |-> <<>>]
    ELSE
      LET game_lump_id  == SubSeq(gl, off + 1, off + 4)
          flags         == UnpackU16(SubSeq(gl, off + 5, off + 6))
          glump_version == UnpackU16(SubSeq(gl, off + 7, off + 8))
          file_off      == UnpackI32(SubSeq(gl, off + 9, off + 12))
          file_len      == UnpackI32(SubSeq(gl, off + 13, off + 16))
          block         == ReadAt(f, file_off, file_len)
      IN IF block.err # "none" THEN [err |-> block.err, game_lumps |-> <<>>]
         ELSE ReadGameLumps(f, gl, k - 1, off + GAMELUMP_ST_SIZE,
                  DictSet(acc, GameLump(GameLumpIdInMemory(game_lump_id), flags,
                                        glump_version, block.data)))

\* BSP(filename, version).read() on a file holding the bytes f; want is the
\* version argument of the constructor
Read(f, want) ==
    LET fail(e) == [err |-> e, obj |-> NoBsp] IN
    IF ~HasBytes(f, 0, HEADER_1_SIZE) THEN fail("struct.error")
    ELSE IF ~MagicOk(SubSeq(f, 1, 4)) THEN fail("NotBspFile")
    ELSE
      LET bsp_version == UnpackI32(SubSeq(f, 5, 8))
          version == IF want.kind = "None"
                     THEN AdoptVersion(bsp_version)
                     ELSE want
      IN
      IF want.kind # "None" /\ ~VersionOk(want, bsp_version)
      THEN fail("VersionMismatch")
      ELSE IF ~HasBytes(f, 0, RevisionPos + HEADER_2_SIZE)
      THEN fail("struct.error")
      ELSE
        LET map_revision == UnpackI32(SubSeq(f, RevisionPos + 1, RevisionPos + 4))
            reads == [i \in BSP_LUMPS |->
                        ReadAt(f, ReadEntry(f, i).offset, ReadEntry(f, i).length)]
            lumps == [i \in BSP_LUMPS |->
                        LET e == ReadEntry(f, i) IN
                        [Lump(e.version, e.ident) EXCEPT !.data = reads[i].data]]
            gl == lumps[GAME_LUMP].data
            \* the lumps are read in index order: the first that fails
            failed == {i \in BSP_LUMPS : reads[i].err # "none"}
            first == CHOOSE i \in failed : \A j \in failed : i <= j
        IN
        IF failed # {} THEN fail(reads[first].err)
        ELSE IF ~HasBytes(gl, 0, 4) THEN fail("struct.error")
        ELSE
          LET r == ReadGameLumps(f, gl, UnpackI32(SubSeq(gl, 1, 4)), 4, <<>>)
          IN IF r.err # "none" THEN fail(r.err)
             ELSE [err |-> "none",
                   obj |-> [version      |-> version,
                            map_revision |-> map_revision,
                            lumps        |-> [lumps EXCEPT ![GAME_LUMP].data = <<>>],
                            game_lumps   |-> r.game_lumps]]

(***************************************************************************)
(* DeferredWrites (binformat): positions of the stream to fill in later    *)
(***************************************************************************)
\* a writer: the bytes written so far, the deferred positions in the order
\* they were registered, and the log of the payloads written
NewWriter == [buf |-> <<>>, defs |-> <<>>, log |-> <<>>]

\* file.tell()
Tell(w) == Len(w.buf)

\* file.write(bytes)
Write(w, bytes) == [w EXCEPT !.buf = @ \o bytes]

\* defer.defer(key, fmt, write): remember the current position under key;
\* with write=True emit placeholder bytes of the size of fmt
Defer(w, key, size, write) ==
    LET d  == [key |-> key, off |-> Tell(w), size |-> size, data |-> <<>>]
        ds == IF \E i \in 1..Len(w.defs) : w.defs[i].key = key
              THEN [i \in 1..Len(w.defs) |->
                      IF w.defs[i].key = key THEN d ELSE w.defs[i]]
              ELSE Append(w.defs, d)
    IN [w EXCEPT !.defs = ds,
                 !.buf  = IF write THEN @ \o Zeros(size) ELSE @]

\* defer.set_data(key, *data): the packed values to write at key's position
SetData(w, key, bytes) ==
    [w EXCEPT !.defs = [i \in 1..Len(w.defs) |->
                          IF w.defs[i].key = key
                          THEN [w.defs[i] EXCEPT !.data = bytes]
                          ELSE w.defs[i]]]

\* seek(off); write(data)
Patch(buf, off, data) ==
    SubSeq(buf, 1, off) \o data \o SubSeq(buf, off + Len(data) + 1, Len(buf))

RECURSIVE ApplyDeferred(_, _, _)
ApplyDeferred(buf, defs, i) ==
    IF Len(buf) < 0 \/ i > Len(defs) THEN buf
    ELSE ApplyDeferred(Patch(buf, defs[i].off, defs[i].data), defs, i + 1)

\* defer.write(): rewrite every deferred position
WriteDeferred(w) == [w EXCEPT !.buf = ApplyDeferred(w.buf, w.defs, 1)]

(***************************************************************************)
(* BSP.save                                                                *)
(***************************************************************************)
\* keys of the deferred writes: a lump is keyed by its BSP_LUMPS member, a
\* game lump by its 4-byte id
LumpKey(i) == <<i>>

\* in the payload log, the key of the game-lump count
CountKey == <<>>

\* isinstance(self.version, VERSIONS): its value, else the integer
SaveVersion(version) == version.value

\* (variant: the id is written as it is held in memory)
GameLumpIdOnDisk_Unreversed(id) == id

\* game_lump.id[::-1]
GameLumpIdOnDisk(id) == Reverse(id)

\* file.write(data) of the lump or game lump key, logged with its position
WritePayload(w, key, data) ==
    [Write(w, data) EXCEPT
        !.log = Append(@, [key |-> key, start |-> Tell(w), len |-> Len(data)])]

\* "Write headers": the 64 directory entries with zero offset and length.
\* (In the loops of save the guard takes Tell(w) first, so that the writer
\* of each iteration is evaluated before the next one starts.)
RECURSIVE SaveHeaders(_, _, _)
SaveHeaders(w, obj, i) ==
    IF Tell(w) < 0 \/ i >= LUMP_COUNT THEN w
    ELSE SaveHeaders(
            Write(Defer(w, LumpKey(i), 8, FALSE),
                  PackI32(0) \o PackI32(0)
                    \o PackI32(obj.lumps[i].version) \o obj.lumps[i].ident),
            obj, i + 1)

\* the directory of the game lumps: id reversed, flags, version, a deferred
\* offset and the length
RECURSIVE SaveGameDir(_, _, _)
SaveGameDir(w, game_lumps, k) ==
    IF Tell(w) < 0 \/ k > Len(game_lumps) THEN w
    ELSE LET g  == game_lumps[k]
             w1 == Write(w, GameLumpIdOnDisk(g.id) \o PackU16(g.flags) \o PackU16(g.version))
             w2 == Defer(w1, g.id, 4, TRUE)
         IN SaveGameDir(Write(w2, PackI32(Len(g.data))), game_lumps, k + 1)

\* "Now write data": each game lump's block, its offset set when known
RECURSIVE SaveGameData(_, _, _)
SaveGameData(w, game_lumps, k) ==
    IF Tell(w) < 0 \/ k > Len(game_lumps) THEN w
    ELSE LET g == game_lumps[k]
         IN SaveGameData(
               WritePayload(SetData(w, g.id, PackI32(Tell(w))), g.id, g.data),
               game_lumps, k + 1)

\* (variant: the length of the region is taken from the start of the file)
SaveGameLump_AbsLength(w, game_lumps) ==
    LET lump_start == Tell(w)
        w1 == WritePayload(w, CountKey, PackI32(Len(game_lumps)))
        w2 == SaveGameDir(w1, game_lumps, 1)
        w3 == SaveGameData(w2, game_lumps, 1)
    IN SetData(w3, LumpKey(GAME_LUMP),
               PackI32(lump_start) \o PackI32(Tell(w3)))

\* the GAME_LUMP region, constructed from game_lumps
SaveGameLump(w, game_lumps) ==
    LET lump_start == Tell(w)
        w1 == WritePayload(w, CountKey, PackI32(Len(game_lumps)))
        w2 == SaveGameDir(w1, game_lumps, 1)
        w3 == SaveGameData(w2, game_lumps, 1)
    IN SetData(w3, LumpKey(GAME_LUMP),
               PackI32(lump_start) \o PackI32(Tell(w3) - lump_start))

\* (variant: the directory entry is set after the data has been written)
SaveLump_TellAfter(w, i, data) ==
    LET w1 == WritePayload(w, LumpKey(i), data)
    IN SetData(w1, LumpKey(i), PackI32(Tell(w1)) \o PackI32(Len(data)))

\* a normal lump: set its directory entry, then write its data
SaveLump(w, i, data) ==
    WritePayload(SetData(w, LumpKey(i), PackI32(Tell(w)) \o PackI32(Len(data))),
                 LumpKey(i), data)

\* "Then each lump", in LUMP_WRITE_ORDER
RECURSIVE SavePayloads(_, _, _)
SavePayloads(w, obj, k) ==
    IF Tell(w) < 0 \/ k > LUMP_COUNT THEN w
    ELSE LET lump_name == LUMP_WRITE_ORDER[k]
         IN SavePayloads(
               IF lump_name = GAME_LUMP
               THEN SaveGameLump(w, obj.game_lumps)
               ELSE SaveLump(w, lump_name, obj.lumps[lump_name].data),
               obj, k + 1)

\* BSP.save(): the writer after the whole file has been produced
Save(obj) ==
    LET w1 == Write(NewWriter, BSP_MAGIC \o PackI32(SaveVersion(obj.version)))
        w2 == SaveHeaders(w1, obj, 0)
        w3 == Write(w2, PackI32(obj.map_revision))
        w4 == SavePayloads(w3, obj, 1)
    IN WriteDeferred(w4)

(***************************************************************************)
(* Input files                                                             *)
(***************************************************************************)
MaxGameLumps == 3      \* game lumps in an input file

MaxData == 2           \* bytes in a payload of an input file

MaxEdits == 1          \* assignments to the object between read and save

\* n bytes of payload, told apart by seed
Payload(n, seed) == [i \in 1..n |-> (seed + 7 * i) % 256]

\* the in-memory ids of the game lumps of the input files: b'sprp', b'prpd',
\* and b'sprp' again
InputGameId(k) ==
    IF k % 2 = 1 THEN <<115, 112, 114, 112>> ELSE <<112, 114, 112, 100>>

InputGameLump(k) ==
    GameLump(InputGameId(k), k - 1, 3 + k, Payload((k + 1) % (MaxData + 1), 40 * k))

\* a file as a compiler lays it out: header, directory, map revision, the
\* non-empty lumps in index order, then the game-lump blocks at the end.
\* p.data[i] is lump i's payload; p.games is the list of game lumps, or
\* p.nogame says that the GAME_LUMP lump is empty.
RECURSIVE SumLen(_, _)
SumLen(seqs, n) == IF n = 0 THEN 0 ELSE Len(seqs[n]) + SumLen(seqs, n - 1)

RECURSIVE Concat(_, _)
Concat(seqs, n) == IF n = 0 THEN <<>> ELSE Concat(seqs, n - 1) \o seqs[n]

MakeFile(p) ==
    LET ngame   == Len(p.games)
        region  == [i \in 1..LUMP_COUNT |->
                      IF i - 1 = GAME_LUMP
                      THEN IF p.nogame THEN <<>>
                           ELSE Zeros(4 + GAMELUMP_ST_SIZE * ngame)
                      ELSE p.data[i - 1]]
        base    == RevisionPos + HEADER_2_SIZE
        start   == [i \in 1..LUMP_COUNT |-> base + SumLen(region, i - 1)]
        gbase   == base + SumLen(region, LUMP_COUNT)
        gdata   == [k \in 1..ngame |-> p.games[k].data]
        gstart  == [k \in 1..ngame |-> gbase + SumLen(gdata, k - 1)]
        gentry  == [k \in 1..ngame |->
                      Reverse(p.games[k].id) \o PackU16(p.games[k].flags)
                        \o PackU16(p.games[k].version)
                        \o PackI32(gstart[k]) \o PackI32(Len(gdata[k]))]
        gdir    == PackI32(ngame) \o Concat(gentry, ngame)
        body    == [i \in 1..LUMP_COUNT |->
                      IF i - 1 = GAME_LUMP /\ ~p.nogame THEN gdir ELSE region[i]]
        entry   == [i \in 1..LUMP_COUNT |->
                      IF region[i] = <<>> THEN Zeros(HEADER_LUMP_SIZE)
                      ELSE PackI32(start[i]) \o PackI32(Len(region[i]))
                             \o PackI32(p.lumpver) \o <<76, 90, 77, 65>>]
    IN p.magic \o PackI32(p.version) \o Concat(entry, LUMP_COUNT)
         \o PackI32(p.revision) \o Concat(body, LUMP_COUNT) \o Concat(gdata, ngame)

\* the lumps given a payload in the input files
ENTITIES == 0

DISP_MULTIBLEND == 63

InputData(e, k, m) ==
    [i \in BSP_LUMPS |->
        IF i = ENTITIES THEN Payload(e, 1)
        ELSE IF i = PAKFILE THEN Payload(k, 80)
        ELSE IF i = DISP_MULTIBLEND THEN Payload(m, 200)
        ELSE <<>>]

\* well-formed files
GoodParams ==
    { [magic |-> BSP_MAGIC, version |-> v, revision |-> 8 * lv - 1, lumpver |-> lv,
       data |-> InputData(e, k, IF k = 0 THEN 0 ELSE 1), nogame |-> FALSE,
       games |-> [j \in 1..n |-> InputGameLump(j)]] :
         v \in {19, 20, 25}, lv \in {0, 1},
         e \in {0, MaxData}, k \in {0, MaxData},
         n \in 0..MaxGameLumps }

\* files with another magic, and files whose GAME_LUMP lump is empty
OtherParams ==
    { [magic |-> m, version |-> v, revision |-> 0, lumpver |-> 0,
       data |-> InputData(e, 0, 0), nogame |-> ng, games |-> <<>>] :
         m \in {BSP_MAGIC, <<86, 66, 83, 81>>}, v \in {20, 25},
         e \in {0, MaxData}, ng \in BOOLEAN } \ GoodParams

\* the empty BSP: the header, 64 zero directory entries, map revision 0
EmptyBsp ==
    BSP_MAGIC \o PackI32(20) \o Zeros(HEADER_LUMP_SIZE * LUMP_COUNT) \o PackI32(0)

InputFiles == { MakeFile(p) : p \in GoodParams \cup OtherParams }

\* the version argument of the constructor
DeclaredVersions == {NoVersion, IntVersion(20), EnumVersion(20), IntVersion(25)}

(***************************************************************************)
(* The container as a state machine: construct (read), assign, save, read  *)
(* the saved file again                                                    *)
(***************************************************************************)
\* Python's None
None == [kind |-> "None"]

\* the static-prop variables while the container is exercised
PropsIdle ==
    /\ sp_pc = "idle"
    /\ sp_game = <<>>
    /\ sp_props = <<>>
    /\ sp_err = "none"
    /\ sp_last = "none"
    /\ sp_given = [mode |-> "none", lump |-> <<>>, props |-> <<>>]
    /\ sp_gen = None
    /\ sp_wrote = None

\* a bool where None may stand (Optional[bool])
Bool(b) == [kind |-> "bool", value |-> b]

\* a str where None may stand
Str(s) == [kind |-> "str", value |-> s]

\* self.filename of the object that is saved
SELF_FILENAME == "map.bsp"

\* (variant: the object's own file is always the destination)
SaveDest_Self(filename, self_filename) == self_filename

\* filename or self.filename: None and '' are false
SaveDest(filename, self_filename) ==
    IF filename = None \/ filename = Str("") THEN self_filename
    ELSE filename.value

\* the container variables while another part is exercised
ContainerIdle ==
    /\ pc = "idle" /\ disk = <<>> /\ path = "" /\ input = <<>> /\ declared = NoVersion
    /\ bsp = NoBsp /\ bsp2 = NoBsp /\ err = "none" /\ edits = 0 /\ wlog = <<>>

\* the entity-lump variables while another part is exercised
EntsIdle ==
    /\ ent_pc = "idle"
    /\ ent_lump = <<>>
    /\ ent_vmf = None
    /\ ent_err = "none"
    /\ ent_text = <<>>
    /\ ent_vmf2 = None

\* the packfile variables while another part is exercised
PakIdle ==
    /\ pak_pc = "idle"
    /\ pak_bsp = None
    /\ pak_zip = None
    /\ pak_old = None

\* the vis-tree variables while another part is exercised
VisIdle ==
    /\ vis_pc = "idle"
    /\ vis_bsp = None
    /\ vis_out = None
    /\ vis_err = "none"

TexIdle ==
    /\ tex_pc = "idle"
    /\ tex_bsp = None
    /\ tex_pos = 0
    /\ tex_names = <<>>
    /\ tex_err = "none"

AngIdle ==
    /\ ang_pc = "idle"
    /\ ang = None
    /\ ang_mat = None
    /\ ang_last = None
    /\ ang_err = "none"
    /\ ang_ops = 0

RotIdle ==
    /\ rot_pc = "idle"
    /\ rot_in = None
    /\ rot_out = None

AxIdle ==
    /\ ax_pc = "idle"
    /\ ax_vec = None
    /\ ax_call = None
    /\ ax_out = None
    /\ ax_err = "none"

GridIdle ==
    /\ grid_pc = "idle"
    /\ grid_in = None
    /\ grid_out = <<>>

SaveIdle ==
    /\ sv_pc = "idle"
    /\ sv_bsp = NoBsp
    /\ sv_filename = None
    /\ sv_dest = None
    /\ sv_files = <<>>
    /\ sv_old = <<>>
    /\ sv_w = NewWriter
    /\ sv_k = 0
    /\ sv_err = "none"

Init ==
    /\ PropsIdle /\ EntsIdle /\ PakIdle /\ VisIdle /\ TexIdle /\ AngIdle /\ RotIdle /\ AxIdle /\ GridIdle /\ SaveIdle
    /\ pc = "new"
    /\ disk \in InputFiles
    /\ path = SELF_FILENAME
    /\ input = disk
    /\ declared = NoVersion
    /\ bsp = NoBsp
    /\ bsp2 = NoBsp
    /\ err = "none"
    /\ edits = 0
    /\ wlog = <<>>

\* BSP(filename, version): the constructor reads the file
Open(d) ==
    /\ pc = "new"
    /\ LET r == Read(disk, d) IN
         /\ bsp' = r.obj
         /\ err' = r.err
         /\ pc' = IF r.err = "none" THEN "loaded" ELSE "failed"
    /\ declared' = d
    /\ UNCHANGED <<disk, path, edits, wlog, bsp2, input, nonContainerVars>>

\* bsp.lumps[i].data = data, by the caller: the assignment that the docstring
\* of replace_lump asks for
AssignLump(i, data) ==
    /\ pc = "loaded"
    /\ edits < MaxEdits
    /\ bsp' = [bsp EXCEPT !.lumps[i].data = data]
    /\ edits' = edits + 1
    /\ UNCHANGED <<pc, disk, path, declared, err, wlog, bsp2, input, nonContainerVars>>

\* bsp.replace_lump(new_name, lump, new_data): lump is a BSP_LUMPS member or
\* the Lump of this object it names; the data is assigned and the object is
\* saved to new_name in the same call
ReplaceLump(new_name, i, new_data) ==
    /\ pc = "loaded"
    /\ edits < MaxEdits
    /\ LET obj == [bsp EXCEPT !.lumps[i].data = new_data]
           w == Save(obj)
       IN /\ bsp' = obj
          /\ disk' = w.buf
          /\ wlog' = w.log
    /\ path' = SaveDest(new_name, SELF_FILENAME)
    /\ edits' = edits + 1
    /\ pc' = "saved"
    /\ UNCHANGED <<declared, err, bsp2, input, nonContainerVars>>

\* bsp.save()
DoSave ==
    /\ pc = "loaded"
    /\ LET w == Save(bsp) IN
         /\ disk' = w.buf
         /\ wlog' = w.log
    /\ path' = SaveDest(None, SELF_FILENAME)
    /\ pc' = "saved"
    /\ UNCHANGED <<declared, bsp, err, edits, bsp2, input, nonContainerVars>>

\* BSP(path) on the file that save wrote
Reread ==
    /\ pc = "saved"
    /\ LET r == Read(disk, NoVersion) IN
         /\ bsp2' = r.obj
         /\ err' = r.err
    /\ pc' = "reread"
    /\ UNCHANGED <<disk, path, declared, bsp, edits, wlog, input, nonContainerVars>>

Next ==
    \/ \E d \in DeclaredVersions : Open(d)
    \/ \E i \in {ENTITIES, GAME_LUMP, PAKFILE} :
         \E data \in {<<>>, Payload(1, 99)} : AssignLump(i, data)
    \/ \E new_name \in {Str(""), Str("new.bsp")}, i \in {ENTITIES, PAKFILE} :
         \E data \in {<<>>, Payload(1, 99)} : ReplaceLump(new_name, i, data)
    \/ DoSave
    \/ Reread

Spec == Init /\ [][Next]_vars

TypeOK ==
    /\ pc \in {"new", "loaded", "saved", "reread", "failed"}
    /\ \A i \in 1..Len(disk) : disk[i] \in Byte

(***************************************************************************)
(* Reading a written file back, for the properties: the directory fields   *)
(* as laid out by HEADER_LUMP ('<3i4s') and GameLump.ST ('<4s HH ii')      *)
(***************************************************************************)
I32At(f, pos) ==
    f[pos + 1] + 256 * f[pos + 2] + 65536 * f[pos + 3]
      + 16777216 * (IF f[pos + 4] >= 128 THEN f[pos + 4] - 256 ELSE f[pos + 4])

DirOffset(f, i) == I32At(f, 8 + 16 * i)

DirLength(f, i) == I32At(f, 8 + 16 * i + 4)

DirVersion(f, i) == I32At(f, 8 + 16 * i + 8)

\* position of game-lump directory entry k (from 1) of the file
GameEntryPos(f, k) == DirOffset(f, GAME_LUMP) + 4 + 16 * (k - 1)

GameCount(f) == I32At(f, DirOffset(f, GAME_LUMP))

\* the four id bytes of entry k, in file order
GameDiskId(f, k) == [j \in 1..4 |-> f[GameEntryPos(f, k) + j]]

GameFileOff(f, k) == I32At(f, GameEntryPos(f, k) + 8)

GameFileLen(f, k) == I32At(f, GameEntryPos(f, k) + 12)

Loaded == pc \in {"loaded", "saved", "reread"}

Saved == pc \in {"saved", "reread"}

(***************************************************************************)
(* Properties of the container codec                                       *)
(***************************************************************************)
\* C1: reading a file, saving the object and reading the written file gives
\* the same version, map revision, lump versions/idents/data and the same
\* game lumps in the same order as the first read.
RoundTripContainer ==
    (pc = "reread" /\ edits = 0) =>
        /\ err = "none"
        /\ bsp2.version.value = bsp.version.value
        /\ (declared = NoVersion => bsp2.version = bsp.version)
        /\ bsp2.map_revision = bsp.map_revision
        /\ \A i \in BSP_LUMPS :
              /\ bsp2.lumps[i].version = bsp.lumps[i].version
              /\ bsp2.lumps[i].ident = bsp.lumps[i].ident
              /\ bsp2.lumps[i].data = bsp.lumps[i].data
        /\ bsp2.game_lumps = bsp.game_lumps

RoundTripContainerWitness ==
    /\ pc = "reread" /\ edits = 0
    /\ Len(bsp2.game_lumps) = 2
    /\ GameCount(input) = 3
    /\ bsp2.lumps[PAKFILE].data # <<>>
    /\ bsp2.lumps[ENTITIES].data # <<>>
    /\ bsp2.lumps[PAKFILE].version = 1

\* C2: after save, every lump's directory entry holds the position and the
\* length of the payload written for it, every game-lump entry those of its
\* data block, and the GAME_LUMP entry spans from the count to the end of
\* the last game-lump block.
LogEnd(e) == e.start + e.len

GameLogEnd ==
    LET blocks == {k \in 1..Len(wlog) : Len(wlog[k].key) \in {0, 4}}
    IN LogEnd(wlog[CHOOSE k \in blocks : \A j \in blocks : j <= k])

DirectoryMatchesPayloads ==
    Saved =>
        /\ \A i \in BSP_LUMPS \ {GAME_LUMP} :
              \E k \in 1..Len(wlog) :
                 /\ wlog[k].key = <<i>>
                 /\ DirOffset(disk, i) = wlog[k].start
                 /\ DirLength(disk, i) = wlog[k].len
                 /\ SubSeq(disk, wlog[k].start + 1, LogEnd(wlog[k])) = bsp.lumps[i].data
        /\ \E k \in 1..Len(wlog) :
              /\ wlog[k].key = CountKey
              /\ DirOffset(disk, GAME_LUMP) = wlog[k].start
        /\ GameCount(disk) = Len(bsp.game_lumps)
        /\ DirOffset(disk, GAME_LUMP) + DirLength(disk, GAME_LUMP) = GameLogEnd
        /\ \A g \in 1..Len(bsp.game_lumps) :
              \E k \in 1..Len(wlog) :
                 /\ wlog[k].key = bsp.game_lumps[g].id
                 /\ GameFileOff(disk, g) = wlog[k].start
                 /\ GameFileLen(disk, g) = wlog[k].len
                 /\ SubSeq(disk, wlog[k].start + 1, LogEnd(wlog[k]))
                       = bsp.game_lumps[g].data

DirectoryMatchesPayloadsWitness ==
    /\ pc = "saved"
    /\ Len(bsp.game_lumps) = 2
    /\ bsp.game_lumps[1].data # <<>>
    /\ bsp.lumps[ENTITIES].data # <<>>
    /\ DirLength(disk, PAKFILE) > 0
    /\ DirOffset(disk, GAME_LUMP) > RevisionPos + HEADER_2_SIZE

\* C3: the PAKFILE payload is the last payload save writes; every other
\* payload lies before it and it ends where the file ends.
PakfileWrittenLast ==
    Saved =>
        LET last == wlog[Len(wlog)] IN
        /\ last.key = <<PAKFILE>>
        /\ LogEnd(last) = Len(disk)
        /\ \A k \in 1..(Len(wlog) - 1) :
              /\ wlog[k].key # <<PAKFILE>>
              /\ LogEnd(wlog[k]) <= last.start
        /\ DirOffset(disk, PAKFILE) + DirLength(disk, PAKFILE) = Len(disk)

PakfileWrittenLastWitness ==
    /\ pc = "saved"
    /\ bsp.lumps[PAKFILE].data # <<>>
    /\ bsp.lumps[DISP_MULTIBLEND].data # <<>>
    /\ Len(bsp.game_lumps) > 0
    /\ DirOffset(disk, DISP_MULTIBLEND) < DirOffset(disk, PAKFILE)

\* C4 (as claimed): the empty BSP is read without error, with every lump
\* empty and no game lumps, and saving it writes the bytes that were read.
EmptyBspReadsAndResaves ==
    (input = EmptyBsp /\ declared = NoVersion /\ pc # "new") =>
        /\ pc # "failed"
        /\ \A i \in BSP_LUMPS : bsp.lumps[i].data = <<>>
        /\ bsp.game_lumps = <<>>
        /\ (Saved /\ edits = 0 => disk = input)

\* C5: a game-lump id is byte-reversed between memory and disk: save writes
\* the id abcd as dcba, read stores the disk id dcba under abcd, and reading
\* a saved file returns every id unchanged.
GameLumpIdReversed ==
    /\ Saved =>
          \A g \in 1..Len(bsp.game_lumps) : \A j \in 1..4 :
              GameDiskId(disk, g)[j] = bsp.game_lumps[g].id[5 - j]
    /\ pc = "loaded" =>
          /\ \A k \in 1..GameCount(input) :
                \E g \in 1..Len(bsp.game_lumps) : \A j \in 1..4 :
                    bsp.game_lumps[g].id[j] = GameDiskId(input, k)[5 - j]
          /\ \A g \in 1..Len(bsp.game_lumps) :
                \E k \in 1..GameCount(input) : \A j \in 1..4 :
                    bsp.game_lumps[g].id[j] = GameDiskId(input, k)[5 - j]
    /\ pc = "reread" =>
          /\ Len(bsp2.game_lumps) = Len(bsp.game_lumps)
          /\ \A g \in 1..Len(bsp.game_lumps) :
                bsp2.game_lumps[g].id = bsp.game_lumps[g].id

GameLumpIdReversedWitness ==
    /\ pc = "reread"
    /\ Len(bsp2.game_lumps) = 2
    /\ bsp2.game_lumps[1].id = <<115, 112, 114, 112>>
    /\ GameDiskId(disk, 1) = <<112, 114, 112, 115>>
    /\ GameDiskId(disk, 2) = <<100, 112, 114, 112>>

\* C6: read fails on another magic; with a declared version it fails when
\* the file's version differs; with none it adopts the file's version, and a
\* number the VERSIONS table does not have is kept as that integer and
\* written back unchanged by save.
ReadVersionChecks ==
    pc # "new" =>
        LET file_version == I32At(input, 4) IN
        /\ SubSeq(input, 1, 4) # <<86, 66, 83, 80>> =>
              pc = "failed" /\ err = "NotBspFile"
        /\ (declared # NoVersion /\ declared.value # file_version) => pc = "failed"
        /\ (Loaded /\ declared = NoVersion) =>
              /\ bsp.version.value = file_version
              /\ file_version \notin VERSIONS => bsp.version = IntVersion(file_version)
        /\ Saved => I32At(disk, 4) = file_version

ReadVersionChecksWitness ==
    /\ pc = "saved"
    /\ declared = NoVersion
    /\ bsp.version = IntVersion(25)
    /\ I32At(disk, 4) = 25

(***************************************************************************)
(* The static-prop game lump (sprp): struct formats                        *)
(***************************************************************************)
\* struct '<I'
PackU32(v) ==
    << v % 256, (v \div 256) % 256, (v \div 65536) % 256, (v \div 16777216) % 256 >>

UnpackU32(b) == b[1] + 256 * b[2] + 65536 * b[3] + 16777216 * b[4]

RECURSIVE Log2(_)
Log2(a) == IF a < 2 THEN 0 ELSE 1 + Log2(a \div 2)

\* struct '<f' of an integer-valued float below 2^24: sign, biased exponent
\* and 23-bit mantissa of the IEEE-754 single
PackF32(n) ==
    IF n = 0 THEN <<0, 0, 0, 0>>
    ELSE LET a    == IF n < 0 THEN -n ELSE n
             e    == Log2(a)
             mant == (a - 2^e) * 2^(23 - e)
             ex   == e + 127
         IN << mant % 256, (mant \div 256) % 256,
               (ex % 2) * 128 + mant \div 65536,
               (IF n < 0 THEN 128 ELSE 0) + ex \div 2 >>

UnpackF32(b) ==
    LET ex   == (b[4] % 128) * 2 + b[3] \div 128
        mant == 8388608 + (b[3] % 128) * 65536 + b[2] * 256 + b[1]
        mag  == IF ex = 0 THEN 0
                ELSE IF ex >= 150 THEN mant * 2^(ex - 150)
                ELSE mant \div 2^(150 - ex)
    IN IF b[4] >= 128 THEN -mag ELSE mag

\* struct '<128s': null-padded (or cut) to 128 bytes
MODEL_NAME_SIZE == 128

PackName(name) ==
    [i \in 1..MODEL_NAME_SIZE |-> IF i <= Len(name) THEN name[i] ELSE 0]

\* bytes.decode('ascii') succeeds
IsAscii(b) == \A i \in 1..Len(b) : b[i] < 128

\* padded_name.rstrip(b'\x00')
RECURSIVE RStripNul(_)
RStripNul(b) ==
    IF b # <<>> /\ b[Len(b)] = 0 THEN RStripNul(SubSeq(b, 1, Len(b) - 1)) ELSE b

\* three '<f' at pos
Vec3At(b, pos) ==
    << UnpackF32(SubSeq(b, pos + 1, pos + 4)),
       UnpackF32(SubSeq(b, pos + 5, pos + 8)),
       UnpackF32(SubSeq(b, pos + 9, pos + 12)) >>

PackVec3(v) == PackF32(v[1]) \o PackF32(v[2]) \o PackF32(v[3])

\* Angle(pitch, yaw, roll): float(x) % 360 % 360 on each axis
Angle(v) == << (v[1] % 360) % 360, (v[2] % 360) % 360, (v[3] % 360) % 360 >>

\* StaticPropFlags: the bits that have a member
FLAG_BITS == {1, 2, 4, 8, 16, 32, 64, 128, 256, 1024}

HasBit(v, bit) == (v \div bit) % 2 = 1

\* StaticPropFlags(flags) raises ValueError on a bit without a member
RECURSIVE FlagsValid(_, _)
FlagsValid(v, bit) ==
    IF v < bit THEN TRUE
    ELSE /\ (HasBit(v, bit) => bit \in FLAG_BITS)
         /\ FlagsValid(v, 2 * bit)

\* StaticPropFlags.value_prim
value_prim(flags) == flags % 256

\* StaticPropFlags.value_sec
value_sec(flags) == flags \div 256

\* StaticProp(...)
StaticProp(model, origin, angles, scaling, visleafs, solidity, flags, skin, min_fade, max_fade, lighting, fade_scale, min_dx_level, max_dx_level, cpu_gpu, tint, renderfx, disable_on_xbox) ==
    [model |-> model, origin |-> origin, angles |-> angles,
     scaling |-> scaling, visleafs |-> visleafs, solidity |-> solidity,
     flags |-> flags, skin |-> skin, min_fade |-> min_fade,
     max_fade |-> max_fade, lighting |-> lighting, fade_scale |-> fade_scale,
     min_dx_level |-> min_dx_level, max_dx_level |-> max_dx_level,
     min_cpu_level |-> cpu_gpu[1], max_cpu_level |-> cpu_gpu[2],
     min_gpu_level |-> cpu_gpu[3], max_gpu_level |-> cpu_gpu[4],
     tint |-> tint, renderfx |-> renderfx, disable_on_xbox |-> disable_on_xbox]

(***************************************************************************)
(* BSP.static_props: decoding the sprp game lump                           *)
(***************************************************************************)
\* _read_static_props_models: dict_num names of 128 bytes, each stripped of
\* its NULs and decoded before the next is read
RECURSIVE ReadModels(_, _, _)
ReadModels(lump, n, pos) ==
    IF n <= 0 THEN [err |-> "none", models |-> <<>>, next |-> pos]
    ELSE IF ~HasBytes(lump, pos, MODEL_NAME_SIZE)
    THEN [err |-> "struct.error", models |-> <<>>, next |-> pos]
    ELSE LET name == RStripNul(SubSeq(lump, pos + 1, pos + MODEL_NAME_SIZE))
             rest == ReadModels(lump, n - 1, pos + MODEL_NAME_SIZE)
         IN IF ~IsAscii(name)
            THEN [err |-> "UnicodeDecodeError", models |-> <<>>, next |-> pos]
            ELSE IF rest.err # "none" THEN rest
            ELSE [rest EXCEPT !.models = <<name>> \o @]

\* the size of one prop record at the given version, as static_props reads it
PropSize(version) ==
    56 + (IF version >= 5 THEN 4 ELSE 0)
       + (IF version \in {6, 7} THEN 4 ELSE 0)
       + (IF version >= 8 THEN 4 ELSE 0)
       + (IF version >= 7 THEN 4 ELSE 0)
       + (IF version >= 11 THEN 4 ELSE 0)
       + (IF version >= 10 THEN 4 ELSE 0)
       + (IF version >= 9 THEN 4 ELSE 0)

\* the body of the loop over the props: one record at pos
ReadProp(lump, pos, version, model_dict, visleaf_list) ==
    LET origin     == Vec3At(lump, pos)
        angles     == Angle(Vec3At(lump, pos + 12))
        model_ind  == UnpackU16(SubSeq(lump, pos + 25, pos + 26))
        first_leaf == UnpackU16(SubSeq(lump, pos + 27, pos + 28))
        leaf_count == UnpackU16(SubSeq(lump, pos + 29, pos + 30))
        solidity   == lump[pos + 31]
        flags_low  == lump[pos + 32]
        skin       == UnpackI32(SubSeq(lump, pos + 33, pos + 36))
        min_fade   == UnpackF32(SubSeq(lump, pos + 37, pos + 40))
        max_fade   == UnpackF32(SubSeq(lump, pos + 41, pos + 44))
        visleafs   == SubSeq(visleaf_list, first_leaf + 1,
                             Min(first_leaf + leaf_count, Len(visleaf_list)))
        lighting   == Vec3At(lump, pos + 44)
        p1         == pos + 56
        fade_scale == IF version >= 5
                      THEN UnpackF32(SubSeq(lump, p1 + 1, p1 + 4)) ELSE 1
        p2         == IF version >= 5 THEN p1 + 4 ELSE p1
        dx         == IF version \in {6, 7}
                      THEN << UnpackU16(SubSeq(lump, p2 + 1, p2 + 2)),
                              UnpackU16(SubSeq(lump, p2 + 3, p2 + 4)) >>
                      ELSE <<0, 0>>
        p3         == IF version \in {6, 7} THEN p2 + 4 ELSE p2
        cpu_gpu    == IF version >= 8
                      THEN SubSeq(lump, p3 + 1, p3 + 4) ELSE <<0, 0, 0, 0>>
        p4         == IF version >= 8 THEN p3 + 4 ELSE p3
        tint       == IF version >= 7
                      THEN SubSeq(lump, p4 + 1, p4 + 3) ELSE <<255, 255, 255>>
        renderfx   == IF version >= 7 THEN lump[p4 + 4] ELSE 255
        p5         == IF version >= 7 THEN p4 + 4 ELSE p4
        \* version >= 11: unknown_1, four bytes read and dropped
        p6         == IF version >= 11 THEN p5 + 4 ELSE p5
        flags      == IF version >= 10
                      THEN flags_low + 256 * UnpackU32(SubSeq(lump, p6 + 1, p6 + 4))
                      ELSE flags_low
        p7         == IF version >= 10 THEN p6 + 4 ELSE p6
        scaling    == IF version >= 11
                      THEN UnpackF32(SubSeq(lump, p7 + 1, p7 + 4)) ELSE 1
        xbox       == IF version < 11 /\ version >= 9
                      THEN lump[p7 + 1] # 0 ELSE FALSE
    \* the reads come one after the other: the record up to the skin and the
    \* fades, the model name, the rest up to the flags, StaticPropFlags(flags),
    \* then the scaling or the xbox byte
    IN IF ~HasBytes(lump, pos, 44) THEN [err |-> "struct.error"]
       ELSE IF model_ind >= Len(model_dict) THEN [err |-> "IndexError"]
       ELSE IF ~HasBytes(lump, pos, p7 - pos) THEN [err |-> "struct.error"]
       ELSE IF ~FlagsValid(flags, 1) THEN [err |-> "InvalidFlags"]
       ELSE IF ~HasBytes(lump, pos, PropSize(version)) THEN [err |-> "struct.error"]
       ELSE [err |-> "none",
             prop |-> StaticProp(model_dict[model_ind + 1], origin, angles,
                         scaling, visleafs, solidity, flags, skin, min_fade,
                         max_fade, lighting, fade_scale, dx[1], dx[2],
                         cpu_gpu, tint, renderfx, xbox)]

RECURSIVE ReadProps(_, _, _, _, _, _)
ReadProps(lump, n, pos, version, model_dict, visleaf_list) ==
    IF n <= 0 THEN [err |-> "none", props |-> <<>>]
    ELSE LET r == ReadProp(lump, pos, version, model_dict, visleaf_list)
         IN IF r.err # "none" THEN [err |-> r.err, props |-> <<>>]
            ELSE LET rest == ReadProps(lump, n - 1, pos + PropSize(version),
                                       version, model_dict, visleaf_list)
                 IN IF rest.err # "none" THEN rest
                    ELSE [rest EXCEPT !.props = <<r.prop>> \o @]

\* (variant: version 11 is taken for unknown)
VersionError_OffByOne(version) ==
    IF version >= 11 THEN "UnknownVersion"
    ELSE IF version < 4 THEN "VersionTooOld"
    ELSE "none"

\* the version checks at the head of static_props
VersionError(version) ==
    IF version > 11 THEN "UnknownVersion"
    ELSE IF version < 4 THEN "VersionTooOld"
    ELSE "none"

\* game_lumps is the dict of the game lumps
HasGameLump(game_lumps, id) == \E g \in 1..Len(game_lumps) : game_lumps[g].id = id

GetGameLump(game_lumps, id) ==
    game_lumps[CHOOSE g \in 1..Len(game_lumps) : game_lumps[g].id = id]

SPRP == <<115, 112, 114, 112>>     \* b'sprp'

\* static_props up to its loop, run by the first next(g): the version
\* checks, the BytesIO copy of the lump, the two tables and the prop count
static_props_start(game_lumps) ==
    LET fail(e) == [err |-> e, gen |-> None] IN
    IF ~HasGameLump(game_lumps, SPRP) THEN fail("NoStaticPropLump")
    ELSE
      LET version == GetGameLump(game_lumps, SPRP).version
          lump    == GetGameLump(game_lumps, SPRP).data
      IN
      IF VersionError(version) # "none" THEN fail(VersionError(version))
      ELSE IF ~HasBytes(lump, 0, 4) THEN fail("struct.error")
      ELSE
        LET m == ReadModels(lump, UnpackI32(SubSeq(lump, 1, 4)), 4) IN
        IF m.err # "none" THEN fail(m.err)
        ELSE IF ~HasBytes(lump, m.next, 4) THEN fail("struct.error")
        ELSE
          LET visleaf_count == Max(0, UnpackI32(SubSeq(lump, m.next + 1, m.next + 4)))
              vpos          == m.next + 4
              visleaf_list  == [i \in 1..visleaf_count |->
                                  UnpackU16(SubSeq(lump, vpos + 2 * i - 1, vpos + 2 * i))]
              ppos          == vpos + 2 * visleaf_count
          IN
          IF ~HasBytes(lump, vpos, 2 * visleaf_count + 4) THEN fail("struct.error")
          ELSE [err |-> "none",
                gen |-> [lump |-> lump, pos |-> ppos + 4,
                         left |-> UnpackI32(SubSeq(lump, ppos + 1, ppos + 4)),
                         version |-> version, model_dict |-> m.models,
                         visleaf_list |-> visleaf_list]]

\* next(g) on the suspended generator: the next prop is read and yielded,
\* or the loop has ended
static_props_next(gen) ==
    IF gen.left <= 0 THEN [err |-> "none", done |-> TRUE, gen |-> gen]
    ELSE LET r == ReadProp(gen.lump, gen.pos, gen.version, gen.model_dict,
                           gen.visleaf_list)
         IN IF r.err # "none" THEN [err |-> r.err, done |-> TRUE, gen |-> gen]
            ELSE [err |-> "none", done |-> FALSE, prop |-> r.prop,
                  gen |-> [gen EXCEPT !.pos = @ + PropSize(gen.version),
                                      !.left = @ - 1]]

\* list(bsp.static_props()): game_lumps is the dict of the game lumps
static_props(game_lumps) ==
    LET s == static_props_start(game_lumps) IN
    IF s.err # "none" THEN [err |-> s.err, props |-> <<>>]
    ELSE ReadProps(s.gen.lump, s.gen.left, s.gen.pos, s.gen.version,
                   s.gen.model_dict, s.gen.visleaf_list)

(***************************************************************************)
(* BSP.write_static_props: encoding the sprp game lump                     *)
(***************************************************************************)
\* (variant: the offset is recorded after the prop's leaves were added)
RECURSIVE LeafOffset_After(_, _)
LeafOffset_After(props, i) ==
    IF i = 0 THEN 0 ELSE Len(props[i].visleafs) + LeafOffset_After(props, i - 1)

\* leaf_offsets[i]: len(leaf_array) when prop i (from 1) is reached
RECURSIVE LeafOffset(_, _)
LeafOffset(props, i) ==
    IF i <= 1 THEN 0
    ELSE Len(props[i - 1].visleafs) + LeafOffset(props, i - 1)

\* leaf_array: every prop's visleafs, one after the other
RECURSIVE LeafArray(_, _)
LeafArray(props, n) ==
    IF n = 0 THEN <<>> ELSE LeafArray(props, n - 1) \o props[n].visleafs

\* models: the set of the props' model names
ModelSet(props) == {props[i].model : i \in 1..Len(props)}

\* list(models): the set in some order
ModelLists(props) ==
    LET S == ModelSet(props) IN
    {l \in [1..Cardinality(S) -> S] :
        \A i, j \in 1..Cardinality(S) : i # j => l[i] # l[j]}

\* model_ind[mdl]
ModelInd(model_list, mdl) ==
    (CHOOSE i \in 1..Len(model_list) : model_list[i] = mdl) - 1

RECURSIVE PackU16s(_, _)
PackU16s(vals, n) ==
    IF n = 0 THEN <<>> ELSE PackU16s(vals, n - 1) \o PackU16(vals[n])

RECURSIVE PackNames(_, _)
PackNames(names, n) ==
    IF n = 0 THEN <<>> ELSE PackNames(names, n - 1) \o PackName(names[n])

\* the record of one prop, as the loop of write_static_props writes it
WriteProp(prop, leaf_off, version, model_list) ==
    PackVec3(prop.origin) \o PackVec3(prop.angles)
      \o PackU16(ModelInd(model_list, prop.model))
      \o PackU16(leaf_off) \o PackU16(Len(prop.visleafs))
      \o <<prop.solidity, value_prim(prop.flags)>>
      \o PackI32(prop.skin) \o PackF32(prop.min_fade) \o PackF32(prop.max_fade)
      \o PackVec3(prop.lighting)
      \o (IF version >= 5 THEN PackF32(prop.fade_scale) ELSE <<>>)
      \o (IF version \in {6, 7}
          THEN PackU16(prop.min_dx_level) \o PackU16(prop.max_dx_level) ELSE <<>>)
      \o (IF version >= 8
          THEN <<prop.min_cpu_level, prop.max_cpu_level,
                 prop.min_gpu_level, prop.max_gpu_level>> ELSE <<>>)
      \o (IF version >= 7
          THEN <<prop.tint[1], prop.tint[2], prop.tint[3], prop.renderfx>> ELSE <<>>)
      \o (IF version >= 10 THEN PackU32(value_sec(prop.flags)) ELSE <<>>)
      \o (IF version >= 11 THEN Zeros(4) \o PackF32(prop.scaling)
          ELSE IF version >= 9
          THEN <<IF prop.disable_on_xbox THEN 1 ELSE 0, 0, 0, 0>>
          ELSE <<>>)

RECURSIVE WriteProps(_, _, _, _)
WriteProps(props, n, version, model_list) ==
    IF n = 0 THEN <<>>
    ELSE WriteProps(props, n - 1, version, model_list)
           \o WriteProp(props[n], LeafOffset(props, n), version, model_list)

\* write_static_props(props): the new data of the sprp game lump of the
\* given version, with the names in the order model_list
write_static_props(props, version, model_list) ==
    LET leaf_array == LeafArray(props, Len(props)) IN
    PackI32(Len(model_list)) \o PackNames(model_list, Len(model_list))
      \o PackI32(Len(leaf_array)) \o PackU16s(leaf_array, Len(leaf_array))
      \o PackI32(Len(props)) \o WriteProps(props, Len(props), version, model_list)

(***************************************************************************)
(* Static props as a state machine: decode a lump and encode the list      *)
(* again, or encode a list and decode the lump                             *)
(***************************************************************************)
MaxProps == 2          \* props in a list

\* model names: b'm1', b'm2'
ModelName(k) == <<109, 48 + k>>

\* the props the lists are made of; flags 65 (low byte only), 257 and 1152
\* (NO_FLASHLIGHT and BOUNCED_LIGHTING in the secondary flags)
InputProp(k) ==
    IF k = 1
    THEN StaticProp(ModelName(1), <<1, -2, 3>>, <<0, 90, 270>>, 1, <<5, 6>>,
                    6, 65, 1, 0, 100, <<1, -2, 4>>, 1, 0, 0, <<0, 0, 0, 0>>,
                    <<255, 255, 255>>, 255, FALSE)
    ELSE IF k = 2
    THEN StaticProp(ModelName(1), <<16, 0, -8>>, <<359, 0, 45>>, 2, <<6>>,
                    0, 257, 0, 10, 20, <<16, 0, -8>>, 1, 0, 0, <<0, 0, 0, 0>>,
                    <<255, 255, 255>>, 255, FALSE)
    ELSE StaticProp(ModelName(2), <<0, 0, 0>>, <<0, 0, 0>>, 3, <<7, 5, 9>>,
                    6, 1152, -1, 0, 0, <<0, 0, 0>>, 1, 0, 0, <<0, 0, 0, 0>>,
                    <<255, 255, 255>>, 255, FALSE)

InputPropLists ==
    UNION { [1..n -> {InputProp(k) : k \in 1..3}] : n \in 0..MaxProps }

\* versions of the sprp game lump: the supported ones, and some around them
InputPropVersions == {0, 3} \cup 4..11 \cup {12, 65535}

\* a prop record as the compiler lays it out (the field order static_props
\* reads): ..., tint, unknown (v11), secondary flags (v10), scaling (v11)
\* or the xbox byte (v9, v10)
RawProp(prop, leaf_off, model_ind, version) ==
    PackVec3(prop.origin) \o PackVec3(prop.angles) \o PackU16(model_ind)
      \o PackU16(leaf_off) \o PackU16(Len(prop.visleafs))
      \o <<prop.solidity, prop.flags % 256>>
      \o PackI32(prop.skin) \o PackF32(prop.min_fade) \o PackF32(prop.max_fade)
      \o PackVec3(prop.lighting)
      \o (IF version >= 5 THEN PackF32(prop.fade_scale) ELSE <<>>)
      \o (IF version \in {6, 7} THEN <<0, 0, 0, 0>> ELSE <<>>)
      \o (IF version >= 8 THEN <<0, 0, 0, 0>> ELSE <<>>)
      \o (IF version >= 7 THEN <<255, 255, 255, 255>> ELSE <<>>)
      \o (IF version >= 11 THEN <<0, 0, 0, 0>> ELSE <<>>)
      \o (IF version >= 10 THEN PackU32(prop.flags \div 256) ELSE <<>>)
      \o (IF version >= 11 THEN PackF32(prop.scaling) ELSE <<>>)
      \o (IF version \in {9, 10} THEN <<0, 0, 0, 0>> ELSE <<>>)

\* the distinct model names of the props, in order of first use
RECURSIVE FirstModels(_, _)
FirstModels(props, n) ==
    IF n = 0 THEN <<>>
    ELSE LET before == FirstModels(props, n - 1)
         IN IF \E i \in 1..Len(before) : before[i] = props[n].model
            THEN before ELSE Append(before, props[n].model)

RECURSIVE RawProps(_, _, _, _)
RawProps(props, n, models, version) ==
    IF n = 0 THEN <<>>
    ELSE RawProps(props, n - 1, models, version)
           \o RawProp(props[n], Len(LeafArray(props, n - 1)),
                      ModelInd(models, props[n].model), version)

\* a well-formed sprp lump of the given version holding the props
MakePropLump(props, version) ==
    LET models == FirstModels(props, Len(props))
        leaves == LeafArray(props, Len(props))
    IN PackI32(Len(models)) \o PackNames(models, Len(models))
         \o PackI32(Len(leaves)) \o PackU16s(leaves, Len(leaves))
         \o PackI32(Len(props)) \o RawProps(props, Len(props), models, version)

\* another game lump, for a BSP without static props
OtherGameLump == GameLump(<<112, 114, 112, 100>>, 0, 4, <<>>)

InitProps ==
    /\ ContainerIdle /\ EntsIdle /\ PakIdle /\ VisIdle /\ TexIdle /\ AngIdle /\ RotIdle /\ AxIdle /\ GridIdle /\ SaveIdle
    /\ sp_pc = "start"
    /\ sp_err = "none"
    /\ sp_last = "none"
    /\ sp_gen = None
    /\ sp_wrote = None
    /\ \E props \in InputPropLists, version \in InputPropVersions :
         \/ /\ sp_given = [mode |-> "file", lump |-> MakePropLump(props, version),
                           props |-> <<>>]
            /\ sp_game = <<OtherGameLump, GameLump(SPRP, 0, version, sp_given.lump)>>
            /\ sp_props = <<>>
         \/ /\ sp_given = [mode |-> "mem", lump |-> <<>>, props |-> props]
            /\ sp_game = <<GameLump(SPRP, 0, version, <<>>), OtherGameLump>>
            /\ sp_props = props
         \/ /\ props = <<>> /\ version = 4
            /\ sp_given = [mode |-> "file", lump |-> <<>>, props |-> <<>>]
            /\ sp_game = <<OtherGameLump>>
            /\ sp_props = <<>>

\* a list given to a call, where None may stand
List(l) == [kind |-> "list", value |-> l]

\* what next(g) leaves: r is the step of the generator, props the list the
\* caller collects; first says that this is the first pass
Resumed(r, props, first) ==
    IF r.err # "none"
    THEN [pc |-> "failed", err |-> r.err, props |-> props, gen |-> None,
          last |-> "decode"]
    ELSE IF r.done
    THEN [pc |-> IF first THEN "decoded" ELSE "redecoded", err |-> "none",
          props |-> props, gen |-> None, last |-> "decode"]
    ELSE [pc |-> IF first THEN "decoding" ELSE "redecoding", err |-> "none",
          props |-> Append(props, r.prop), gen |-> r.gen, last |-> "yield"]

\* g = bsp.static_props(); props = [next(g)]: the first next runs the
\* generator up to its first yield
StaticPropsFirst ==
    /\ \/ sp_pc = "start" /\ sp_given.mode = "file"
       \/ sp_pc = "encoded"
    /\ LET s == static_props_start(sp_game)
           after == IF s.err # "none"
                    THEN Resumed([err |-> s.err, done |-> TRUE], <<>>, sp_pc = "start")
                    ELSE Resumed(static_props_next(s.gen), <<>>, sp_pc = "start")
       IN /\ sp_pc' = after.pc
          /\ sp_err' = after.err
          /\ sp_props' = after.props
          /\ sp_gen' = after.gen
          /\ sp_last' = after.last
    /\ UNCHANGED <<sp_game, sp_given, sp_wrote, nonPropVars>>

\* props.append(next(g)): the generator goes on from its yield, on the copy
\* of the lump it made
StaticPropsNext ==
    /\ sp_pc \in {"decoding", "redecoding"}
    /\ LET after == Resumed(static_props_next(sp_gen), sp_props, sp_pc = "decoding")
       IN /\ sp_pc' = after.pc
          /\ sp_err' = after.err
          /\ sp_props' = after.props
          /\ sp_gen' = after.gen
          /\ sp_last' = after.last
    /\ UNCHANGED <<sp_game, sp_given, sp_wrote, nonPropVars>>

\* bsp.write_static_props(props), also while the generator is suspended;
\* the names are written in the order the set of models happens to have
EncodeProps ==
    /\ \/ sp_pc = "start" /\ sp_given.mode = "mem"
       \/ sp_pc \in {"decoding", "decoded", "redecoding"}
    /\ sp_last' = "encode"
    /\ sp_wrote' = List(sp_props)
    /\ IF ~HasGameLump(sp_game, SPRP)
       THEN /\ sp_err' = "KeyError"
            /\ sp_pc' = "failed"
            /\ UNCHANGED sp_game
       ELSE \E model_list \in ModelLists(sp_props) :
            /\ sp_game' = [g \in 1..Len(sp_game) |->
                  IF sp_game[g].id = SPRP
                  THEN [sp_game[g] EXCEPT !.data =
                          write_static_props(sp_props, sp_game[g].version, model_list)]
                  ELSE sp_game[g]]
            /\ sp_err' = "none"
            /\ sp_pc' = IF sp_gen = None THEN "encoded" ELSE sp_pc
    /\ UNCHANGED <<sp_props, sp_given, sp_gen, nonPropVars>>

NextProps == StaticPropsFirst \/ StaticPropsNext \/ EncodeProps

SpecProps == InitProps /\ [][NextProps]_vars

(***************************************************************************)
(* Reading the sprp lump back, for the properties                          *)
(***************************************************************************)
SprpLump == GetGameLump(sp_game, SPRP).data

SprpVersion == GetGameLump(sp_game, SPRP).version

U16At(f, pos) == f[pos + 1] + 256 * f[pos + 2]

\* the model-name table: count at 0, then names of 128 bytes
TableCount == I32At(SprpLump, 0)

TableName(k) == SubSeq(SprpLump, 4 + 128 * (k - 1) + 1, 4 + 128 * k)

Padded(name) == [i \in 1..128 |-> IF i <= Len(name) THEN name[i] ELSE 0]

\* the leaf table: count, then 16-bit leaves
LeafTablePos == 4 + 128 * TableCount

LeafTableCount == I32At(SprpLump, LeafTablePos)

LeafTableAt(j) == U16At(SprpLump, LeafTablePos + 4 + 2 * (j - 1))

\* the prop records: count, then records of the version's size
RecordPos(i) ==
    LeafTablePos + 4 + 2 * LeafTableCount + 4 + (i - 1) * PropSize(SprpVersion)

RecordModelInd(i) == U16At(SprpLump, RecordPos(i) + 24)

RecordFirstLeaf(i) == U16At(SprpLump, RecordPos(i) + 26)

RecordLeafCount(i) == U16At(SprpLump, RecordPos(i) + 28)

RecordFlagsLow(i) == SprpLump[RecordPos(i) + 32]

\* the list was given by the caller and is the one last written
WroteGiven == sp_given.mode = "mem" /\ sp_wrote = List(sp_given.props)

(***************************************************************************)
(* Properties of the static-prop codec                                     *)
(***************************************************************************)
\* C7 (as claimed): for each version 4..11, decoding a well-formed sprp lump
\* and encoding the decoded list yields the bytes of the original lump, when
\* the model names are written in the original order.
StaticPropRoundTrip ==
    (sp_given.mode = "file" /\ sp_pc = "encoded" /\ SprpVersion \in 4..11
        /\ \A k \in 1..TableCount :
              TableName(k) = SubSeq(sp_given.lump, 4 + 128 * (k - 1) + 1, 4 + 128 * k))
      => SprpLump = sp_given.lump

\* C8 (as claimed): at versions 10 and 11 the flags of every prop survive
\* write_static_props followed by static_props, the low 8 bits being in the
\* flags_low byte, and at version 11 the scaling survives too.
FlagsSurviveWriteRead ==
    (WroteGiven /\ sp_last = "decode" /\ SprpVersion \in {10, 11}) =>
        /\ sp_pc = "redecoded"
        /\ Len(sp_props) = Len(sp_given.props)
        /\ \A i \in 1..Len(sp_given.props) :
              /\ sp_props[i].flags = sp_given.props[i].flags
              /\ RecordFlagsLow(i) = sp_given.props[i].flags % 256
              /\ SprpVersion = 11 => sp_props[i].scaling = sp_given.props[i].scaling

\* C9: write_static_props emits each distinct model name once and the leaf
\* table that is the concatenation of the props' visleafs, each prop's
\* first_leaf being the start of its run; decoding returns every prop's
\* model name and visleafs.
ModelAndLeafTables ==
    WroteGiven =>
        LET given == sp_given.props
            np    == Len(given)
        IN
        /\ TableCount = Cardinality(ModelSet(given))
        /\ \A m \in ModelSet(given) :
              Cardinality({k \in 1..TableCount : TableName(k) = Padded(m)}) = 1
        /\ np = 0 => LeafTableCount = 0
        /\ np > 0 =>
              /\ RecordFirstLeaf(1) = 0
              /\ LeafTableCount = RecordFirstLeaf(np) + Len(given[np].visleafs)
        /\ \A i \in 1..np :
              /\ i > 1 => RecordFirstLeaf(i)
                            = RecordFirstLeaf(i - 1) + Len(given[i - 1].visleafs)
              /\ RecordLeafCount(i) = Len(given[i].visleafs)
              /\ \A j \in 1..Len(given[i].visleafs) :
                    LeafTableAt(RecordFirstLeaf(i) + j) = given[i].visleafs[j]
              /\ TableName(RecordModelInd(i) + 1) = Padded(given[i].model)
        /\ (sp_last = "decode" /\ SprpVersion \in 4..11) =>
              /\ sp_pc = "redecoded"
              /\ Len(sp_props) = np
              /\ \A i \in 1..np :
                    /\ sp_props[i].model = given[i].model
                    /\ sp_props[i].visleafs = given[i].visleafs

ModelAndLeafTablesWitness ==
    /\ WroteGiven /\ sp_pc = "redecoded"
    /\ SprpVersion = 11
    /\ Len(sp_props) = 2
    /\ sp_props[1].model # sp_props[2].model
    /\ sp_props[1].visleafs = <<7, 5, 9>>
    /\ sp_props[2].visleafs = <<5, 6>>
    /\ TableName(1) = Padded(sp_props[2].model)

\* C10: decoding fails with an unsupported-version error for every sprp
\* version below 4 or above 11, with no version error for 4..11, and with a
\* missing-lump error when there is no sprp game lump.
VersionGate ==
    sp_last = "decode" =>
        IF ~HasGameLump(sp_game, SPRP) THEN sp_err = "NoStaticPropLump"
        ELSE IF SprpVersion < 4 \/ SprpVersion > 11
        THEN sp_pc = "failed" /\ sp_err \in {"UnknownVersion", "VersionTooOld"}
        ELSE sp_err \notin {"UnknownVersion", "VersionTooOld", "NoStaticPropLump"}

VersionGateWitness ==
    /\ sp_last = "decode"
    /\ HasGameLump(sp_game, SPRP)
    /\ sp_pc = "failed"
    /\ SprpVersion = 12
    /\ sp_err = "UnknownVersion"
    /\ Len(sp_given.props) = 2

(***************************************************************************)
(* The entity lump: bytes helpers of read_ent_data                         *)
(***************************************************************************)
\* bytes.splitlines(): lines end at \n, \r or \r\n; no empty last line
RECURSIVE splitlines(_, _)
splitlines(b, start) ==
    LET ends == {i \in start..Len(b) : b[i] \in {10, 13}}
        i == CHOOSE e \in ends : \A f \in ends : e <= f
        n == IF b[i] = 13 /\ i < Len(b) /\ b[i + 1] = 10 THEN i + 2 ELSE i + 1
    IN IF start > Len(b) THEN <<>>
       ELSE IF ends = {} THEN <<SubSeq(b, start, Len(b))>>
       ELSE <<SubSeq(b, start, i - 1)>> \o splitlines(b, n)

\* does pat occur in b at position i
OccursAt(b, pat, i) ==
    /\ i + Len(pat) - 1 <= Len(b)
    /\ \A j \in 1..Len(pat) : b[i + j - 1] = pat[j]

\* bytes.find(pat, from): the first position at or after from, 0 if none
Find(b, pat, from) ==
    LET hits == {i \in from..Len(b) : OccursAt(b, pat, i)}
    IN IF hits = {} THEN 0 ELSE CHOOSE i \in hits : \A j \in hits : i <= j

\* bytes.split(sep, maxsplit)
RECURSIVE split(_, _, _)
split(b, sep, maxsplit) ==
    LET at == Find(b, sep, 1)
    IN IF maxsplit = 0 \/ at = 0 THEN <<b>>
       ELSE <<SubSeq(b, 1, at - 1)>>
              \o split(SubSeq(b, at + Len(sep), Len(b)), sep, maxsplit - 1)

\* bytes.split(sep): every occurrence
SplitAll(b, sep) == split(b, sep, Len(b))

\* bytes.replace(old, new)
RECURSIVE replace(_, _, _)
replace(b, old, new) ==
    LET at == Find(b, old, 1)
    IN IF at = 0 THEN b
       ELSE SubSeq(b, 1, at - 1) \o new
              \o replace(SubSeq(b, at + Len(old), Len(b)), old, new)

\* bytes.count(c) for one byte
count(b, c) == Cardinality({i \in 1..Len(b) : b[i] = c})

\* c in b, for one byte
Contains(b, c) == \E i \in 1..Len(b) : b[i] = c

QUOTE == <<34>>
ESCAPED_QUOTE == <<92, 34>>
KV_SEP == <<34, 32, 34>>
NL == <<10>>
NUL == <<0>>
OPEN_BRACE == <<123>>
CLOSE_BRACE == <<125>>
COMMA == 44

(***************************************************************************)
(* VMF, Entity and Output (srctools.vmf), as far as the entity lump uses   *)
(* them.  Strings are kept as their ASCII bytes.                           *)
(***************************************************************************)
\* the separator of the fields of an output, other than the comma
OUTPUT_SEP == 29

Digits == 48..57

\* int(text): an optional minus sign and decimal digits
IsInt(text) ==
    LET d == IF Len(text) > 0 /\ text[1] = 45 THEN SubSeq(text, 2, Len(text)) ELSE text
    IN Len(d) > 0 /\ \A i \in 1..Len(d) : d[i] \in Digits

RECURSIVE DigitsValue(_, _)
DigitsValue(d, n) ==
    IF n = 0 THEN 0 ELSE 10 * DigitsValue(d, n - 1) + (d[n] - 48)

IntValue(text) ==
    IF text[1] = 45 THEN 0 - DigitsValue(SubSeq(text, 2, Len(text)), Len(text) - 1)
    ELSE DigitsValue(text, Len(text))

\* str(n)
RECURSIVE NatText(_)
NatText(n) == IF n < 10 THEN <<48 + n>> ELSE NatText(n \div 10) \o <<48 + (n % 10)>>

IntText(n) == IF n < 0 THEN <<45>> \o NatText(0 - n) ELSE NatText(n)

\* conv_int(val, default)
conv_int(val, default) == IF IsInt(val) THEN IntValue(val) ELSE default

\* Output(...)
Output(output, target, input_name, params, delay, times, comma_sep) ==
    [output |-> output, target |-> target, input |-> input_name, params |-> params,
     delay |-> delay, times |-> times, comma_sep |-> comma_sep]

\* Output.parse(Property(name, value)): five fields, separated by OUTPUT_SEP
\* when the value has one and by commas otherwise, the last two numbers
Output_parse(name, value) ==
    LET by_sep == Contains(value, OUTPUT_SEP)
        vals == SplitAll(value, IF by_sep THEN <<OUTPUT_SEP>> ELSE <<COMMA>>)
    IN IF Len(vals) # 5 \/ ~IsInt(vals[4]) \/ ~IsInt(vals[5])
       THEN [ok |-> FALSE, out |-> None]
       ELSE [ok |-> TRUE,
             out |-> Output(name, vals[1], vals[2], vals[3],
                            IntValue(vals[4]), IntValue(vals[5]), ~by_sep)]

\* Output._get_text(): the line of an output
Output_get_text(out) ==
    LET sep == IF out.comma_sep THEN <<COMMA>> ELSE <<OUTPUT_SEP>>
    IN QUOTE \o out.output \o KV_SEP \o out.target \o sep \o out.input \o sep
         \o out.params \o sep \o IntText(out.delay) \o sep \o IntText(out.times)
         \o QUOTE \o NL

\* escape_text(value): a double quote becomes \"
escape_text(value) == replace(value, QUOTE, ESCAPED_QUOTE)

\* Entity(vmf): no keyvalues, no outputs
Entity == [keys |-> <<>>, outputs |-> <<>>]

\* ent[key], '' when the key is not set
Entity_getitem(ent, key) ==
    IF \E i \in 1..Len(ent.keys) : ent.keys[i].key = key
    THEN (CHOOSE kv \in {ent.keys[i] : i \in 1..Len(ent.keys)} : kv.key = key).value
    ELSE <<>>

\* ent[key] = value: a key set again keeps its place
Entity_setitem(ent, key, value) ==
    IF \E i \in 1..Len(ent.keys) : ent.keys[i].key = key
    THEN [ent EXCEPT !.keys = [i \in 1..Len(ent.keys) |->
            IF ent.keys[i].key = key THEN [key |-> key, value |-> value]
            ELSE ent.keys[i]]]
    ELSE [ent EXCEPT !.keys = Append(@, [key |-> key, value |-> value])]

\* ent.add_out(output)
Entity_add_out(ent, out) == [ent EXCEPT !.outputs = Append(@, out)]

\* VMF(): an empty map
VMF == [spawn |-> Entity, entities |-> <<>>, map_ver |-> 0]

CLASSNAME == <<99, 108, 97, 115, 115, 110, 97, 109, 101>>
WORLDSPAWN == <<119, 111, 114, 108, 100, 115, 112, 97, 119, 110>>
MAPVERSION == <<109, 97, 112, 118, 101, 114, 115, 105, 111, 110>>

(***************************************************************************)
(* BSP.read_ent_data                                                       *)
(***************************************************************************)
\* the locals of the loop: cur is "none" for cur_ent = None, "spawn" when
\* cur_ent is vmf.spawn, "new" when it is an entity not yet in the list
ReadEntStart == [vmf |-> VMF, cur |-> "none", ent |-> Entity, seen_spawn |-> FALSE]

cur_ent(st) == IF st.cur = "spawn" THEN st.vmf.spawn ELSE st.ent

\* a method of cur_ent changed it: through vmf.spawn when it is the spawn
WithCurEnt(st, e) ==
    IF st.cur = "spawn" THEN [st EXCEPT !.vmf.spawn = e] ELSE [st EXCEPT !.ent = e]

Raised(st, what) == [err |-> what, done |-> TRUE, st |-> st]
Continue(st) == [err |-> "none", done |-> FALSE, st |-> st]
Return(st) == [err |-> "none", done |-> TRUE, st |-> st]

\* the key/value line: <"key" "val">
HasOutputSep(value) == Contains(value, 27)

FourCommas(value) == count(value, COMMA) = 4

\* try: add_out(Output.parse(...)) except ValueError: cur_ent[key] = value
TryOutput(st, parsed, as_output, as_keyvalue) ==
    IF parsed.ok THEN Continue(as_output) ELSE Continue(as_keyvalue)

ReadKeyvalue(st, line) ==
    LET parts == split(line, KV_SEP, 2) IN
    IF Len(parts) # 2 THEN Raised(st, "ValueError: unpack")
    ELSE
    LET key == parts[1]
        value == parts[2]
        decoded_key == SubSeq(key, 2, Len(key))
        decoded_value == replace(SubSeq(value, 1, Len(value) - 1), ESCAPED_QUOTE, QUOTE)
        parsed == Output_parse(decoded_key, decoded_value)
        as_keyvalue == WithCurEnt(st, Entity_setitem(cur_ent(st), decoded_key, decoded_value))
        as_output == WithCurEnt(st, Entity_add_out(cur_ent(st), parsed.out))
    IN IF ~IsAscii(decoded_key) \/ ~IsAscii(decoded_value)
       THEN Raised(st, "ValueError: decode")
       ELSE IF HasOutputSep(value)
       THEN IF parsed.ok THEN Continue(as_output)
            ELSE Raised(st, "ValueError: output")
       ELSE IF FourCommas(value)
       THEN TryOutput(st, parsed, as_output, as_keyvalue)
       ELSE Continue(as_keyvalue)

\* one turn of the loop over the lines
ReadEntLine(st, line) ==
    IF line = OPEN_BRACE
    THEN IF st.cur # "none" THEN Raised(st, "ValueError: nesting")
         ELSE IF ~st.seen_spawn
         THEN Continue([st EXCEPT !.cur = "spawn", !.seen_spawn = TRUE])
         ELSE Continue([st EXCEPT !.cur = "new", !.ent = Entity])
    ELSE IF line = CLOSE_BRACE
    THEN IF st.cur = "none" THEN Raised(st, "ValueError: closing")
         ELSE IF st.cur = "spawn"
         THEN IF Entity_getitem(st.vmf.spawn, CLASSNAME) # WORLDSPAWN
              THEN Raised(st, "ValueError: worldspawn")
              ELSE Continue([st EXCEPT !.cur = "none"])
         ELSE Continue([st EXCEPT !.vmf.entities = Append(@, st.ent), !.cur = "none"])
    ELSE IF line = NUL
    THEN IF st.cur # "none" THEN Raised(st, "ValueError: unended")
         ELSE Return(st)
    ELSE IF st.cur = "none" THEN Raised(st, "ValueError: outside")
    ELSE ReadKeyvalue(st, line)

RECURSIVE ReadEntLines(_, _, _)
ReadEntLines(lines, k, st) ==
    IF k > Len(lines)
    THEN [err |-> "none",
          vmf |-> [st.vmf EXCEPT !.map_ver =
                     conv_int(Entity_getitem(st.vmf.spawn, MAPVERSION), st.vmf.map_ver)]]
    ELSE LET r == ReadEntLine(st, lines[k])
         IN IF r.err # "none" THEN [err |-> r.err, vmf |-> None]
            ELSE IF r.done THEN [err |-> "none", vmf |-> r.st.vmf]
            ELSE ReadEntLines(lines, k + 1, r.st)

\* BSP.read_ent_data(), on the bytes of the ENTITIES lump
read_ent_data(ent_data) == ReadEntLines(splitlines(ent_data, 1), 1, ReadEntStart)

(***************************************************************************)
(* BSP.write_ent_data                                                      *)
(***************************************************************************)
\* the outputs as the loop leaves them: comma_sep assigned when forced
ForcedOutputs(outputs, use_comma_sep) ==
    IF use_comma_sep = None THEN outputs
    ELSE [i \in 1..Len(outputs) |-> [outputs[i] EXCEPT !.comma_sep = use_comma_sep.value]]

RECURSIVE WriteKeys(_, _)
WriteKeys(keys, n) ==
    IF n = 0 THEN <<>>
    ELSE WriteKeys(keys, n - 1)
           \o QUOTE \o keys[n].key \o KV_SEP \o escape_text(keys[n].value) \o QUOTE \o NL

RECURSIVE WriteOutputs(_, _)
WriteOutputs(outputs, n) ==
    IF n = 0 THEN <<>>
    ELSE WriteOutputs(outputs, n - 1) \o Output_get_text(outputs[n])

WriteEnt(ent, use_comma_sep) ==
    OPEN_BRACE \o NL \o WriteKeys(ent.keys, Len(ent.keys))
      \o WriteOutputs(ForcedOutputs(ent.outputs, use_comma_sep), Len(ent.outputs))
      \o CLOSE_BRACE \o NL

RECURSIVE WriteEnts(_, _, _)
WriteEnts(ents, n, use_comma_sep) ==
    IF n = 0 THEN <<>>
    ELSE WriteEnts(ents, n - 1, use_comma_sep) \o WriteEnt(ents[n], use_comma_sep)

\* BSP.write_ent_data(vmf, use_comma_sep): the bytes, and the VMF as the call
\* leaves it
write_ent_data(vmf, use_comma_sep) ==
    LET ents == <<vmf.spawn>> \o vmf.entities
    IN [data |-> WriteEnts(ents, Len(ents), use_comma_sep) \o NUL,
        vmf |-> [vmf EXCEPT
                   !.spawn.outputs = ForcedOutputs(@, use_comma_sep),
                   !.entities = [i \in 1..Len(vmf.entities) |->
                       [vmf.entities[i] EXCEPT
                          !.outputs = ForcedOutputs(@, use_comma_sep)]]]]

(***************************************************************************)
(* The entity lump as a state machine: read, write, read again             *)
(***************************************************************************)
\* lines in the body of the first entity, besides its classname
MaxBody == 2
\* items of the lump after the first
MaxMore == 1

INFO == <<105, 110, 102, 111>>

\* "key" "value"
KvLine(key, value) == QUOTE \o key \o KV_SEP \o value \o QUOTE

\* the lines an entity body is made of:
BodyLines == <<
    \* "k" "a,b,c": two commas
    <<34, 107, 34, 32, 34, 97, 44, 98, 44, 99, 34>>,
    \* "On" "t,i,p,0,-1": an output with commas
    <<34, 79, 110, 34, 32, 34, 116, 44, 105, 44, 112, 44, 48, 44, 45, 49, 34>>,
    \* "On" "t,i,p,x,y": four commas, not numbers
    <<34, 79, 110, 34, 32, 34, 116, 44, 105, 44, 112, 44, 120, 44, 121, 34>>,
    \* "On" "t<1D>i<1D>p<1D>0<1D>1": fields separated by 0x1D
    <<34, 79, 110, 34, 32, 34, 116, 29, 105, 29, 112, 29, 48, 29, 49, 34>>,
    \* "On" "t<1B>i,p": byte 27 and two commas
    <<34, 79, 110, 34, 32, 34, 116, 27, 105, 44, 112, 34>>,
    \* "On" "t<1B>,i,p,0,1": byte 27 and four commas
    <<34, 79, 110, 34, 32, 34, 116, 27, 44, 105, 44, 112, 44, 48, 44, 49, 34>>,
    \* "k" "a\"b": an escaped quote
    <<34, 107, 34, 32, 34, 97, 92, 34, 98, 34>>,
    \* "k" "x" z: no closing quote
    <<34, 107, 34, 32, 34, 120, 34, 32, 122>>,
    \* "mapversion" "7"
    <<34, 109, 97, 112, 118, 101, 114, 115, 105, 111, 110, 34, 32, 34, 55, 34>>,
    \* junk: not a key/value line
    <<106, 117, 110, 107>>
    >>

RECURSIVE JoinLines(_, _)
JoinLines(lines, n) == IF n = 0 THEN <<>> ELSE JoinLines(lines, n - 1) \o lines[n] \o NL

\* the bodies of at most n lines
RECURSIVE Bodies(_)
Bodies(n) ==
    IF n = 0 THEN {<<>>}
    ELSE Bodies(n - 1) \cup
         {Append(b, BodyLines[k]) : b \in {c \in Bodies(n - 1) : Len(c) = n - 1},
                                    k \in 1..Len(BodyLines)}

\* an entity of a class, closed or left open
InputEntity(class, body, closed) ==
    OPEN_BRACE \o NL \o KvLine(CLASSNAME, class) \o NL \o JoinLines(body, Len(body))
      \o (IF closed THEN CLOSE_BRACE \o NL ELSE <<>>)

FirstItems ==
    {InputEntity(WORLDSPAWN, body, TRUE) : body \in Bodies(MaxBody)}
    \cup {InputEntity(WORLDSPAWN, body, FALSE) : body \in Bodies(1)}
    \cup {InputEntity(INFO, <<>>, TRUE), <<>>, CLOSE_BRACE \o NL, BodyLines[1] \o NL}

MoreItems ==
    {InputEntity(INFO, <<>>, TRUE), InputEntity(INFO, <<BodyLines[2]>>, TRUE),
     OPEN_BRACE \o NL, CLOSE_BRACE \o NL, BodyLines[1] \o NL}

RECURSIVE MoreLumps(_)
MoreLumps(n) ==
    IF n = 0 THEN {<<>>}
    ELSE MoreLumps(n - 1) \cup {a \o b : a \in MoreLumps(n - 1), b \in MoreItems}

\* how the lump ends: nothing, the NUL, data on the line of the NUL, data
\* on the line after the NUL
Terminators == {<<>>, NUL, NUL \o <<120>>, NUL \o NL \o BodyLines[10]}

InputLumps == {a \o b \o t : a \in FirstItems, b \in MoreLumps(MaxMore), t \in Terminators}

InitEnts ==
    /\ ContainerIdle /\ PropsIdle /\ PakIdle /\ VisIdle /\ TexIdle /\ AngIdle /\ RotIdle /\ AxIdle /\ GridIdle /\ SaveIdle
    /\ ent_pc = "start"
    /\ ent_lump \in InputLumps
    /\ ent_vmf = None
    /\ ent_err = "none"
    /\ ent_text = <<>>
    /\ ent_vmf2 = None

\* vmf = bsp.read_ent_data()
ReadEnts ==
    /\ ent_pc = "start"
    /\ LET r == read_ent_data(ent_lump) IN
         /\ ent_vmf' = r.vmf
         /\ ent_err' = r.err
         /\ ent_pc' = IF r.err = "none" THEN "read" ELSE "failed"
    /\ UNCHANGED <<ent_lump, ent_text, ent_vmf2, nonEntVars>>

\* data = BSP.write_ent_data(vmf, use_comma_sep)
SaveEnts(use_comma_sep) ==
    /\ ent_pc = "read"
    /\ LET w == write_ent_data(ent_vmf, use_comma_sep) IN
         /\ ent_text' = w.data
         /\ ent_vmf' = w.vmf
    /\ ent_pc' = "written"
    /\ UNCHANGED <<ent_lump, ent_err, ent_vmf2, nonEntVars>>

\* read_ent_data() on the bytes that write_ent_data returned
RereadEnts ==
    /\ ent_pc = "written"
    /\ LET r == read_ent_data(ent_text) IN
         /\ ent_vmf2' = r.vmf
         /\ ent_err' = r.err
    /\ ent_pc' = "reread"
    /\ UNCHANGED <<ent_lump, ent_vmf, ent_text, nonEntVars>>

NextEnts ==
    \/ ReadEnts
    \/ \E use_comma_sep \in {None, Bool(TRUE), Bool(FALSE)} : SaveEnts(use_comma_sep)
    \/ RereadEnts

SpecEnts == InitEnts /\ [][NextEnts]_vars

(***************************************************************************)
(* Reading the lump and the VMF, for the properties                        *)
(***************************************************************************)
\* the lines of the lump up to the line of the NUL, which ends the reading
RECURSIVE UpToNul(_, _)
UpToNul(lines, k) ==
    IF k > Len(lines) \/ lines[k] = NUL THEN <<>>
    ELSE <<lines[k]>> \o UpToNul(lines, k + 1)

LinesRead == UpToNul(splitlines(ent_lump, 1), 1)

IsBrace(line) == line \in {OPEN_BRACE, CLOSE_BRACE}

\* the key and the value a key/value line stands for
LineKey(line) == LET key == split(line, KV_SEP, 2)[1] IN SubSeq(key, 2, Len(key))
LineRawValue(line) == split(line, KV_SEP, 2)[2]
LineValue(line) ==
    replace(SubSeq(LineRawValue(line), 1, Len(LineRawValue(line)) - 1), ESCAPED_QUOTE, QUOTE)

AllEnts(vmf) == <<vmf.spawn>> \o vmf.entities

\* the text of the fields of an output, as its line gives them
OutputValue(out, sep) ==
    out.target \o sep \o out.input \o sep \o out.params \o sep
      \o IntText(out.delay) \o sep \o IntText(out.times)

\* some entity of the VMF has the line among its outputs
StoredAsOutput(vmf, line) ==
    \E e \in 1..Len(AllEnts(vmf)) : \E o \in 1..Len(AllEnts(vmf)[e].outputs) :
       LET out == AllEnts(vmf)[e].outputs[o] IN
         /\ out.output = LineKey(line)
         /\ \E sep \in {<<COMMA>>, <<27>>, <<OUTPUT_SEP>>} :
              OutputValue(out, sep) = LineValue(line)

\* some entity of the VMF has the line as a keyvalue
StoredAsKeyvalue(vmf, line) ==
    \E e \in 1..Len(AllEnts(vmf)) : \E k \in 1..Len(AllEnts(vmf)[e].keys) :
       AllEnts(vmf)[e].keys[k] = [key |-> LineKey(line), value |-> LineValue(line)]

\* what the first reading returned (ent_vmf may have been through a write)
FirstVMF == read_ent_data(ent_lump).vmf

\* keyvalues and outputs of the entities, the separator of an output aside
SameOutput(a, b) == [a EXCEPT !.comma_sep = TRUE] = [b EXCEPT !.comma_sep = TRUE]
SameEntity(a, b) ==
    /\ a.keys = b.keys
    /\ Len(a.outputs) = Len(b.outputs)
    /\ \A o \in 1..Len(a.outputs) : SameOutput(a.outputs[o], b.outputs[o])
SameVMF(a, b) ==
    /\ Len(a.entities) = Len(b.entities)
    /\ \A e \in 1..Len(AllEnts(a)) : SameEntity(AllEnts(a)[e], AllEnts(b)[e])

(***************************************************************************)
(* C11  Entity round trip: for every lump b that read_ent_data accepts,    *)
(* the text write_ent_data(read_ent_data(b)) is read again without error   *)
(* and to an equal VMF: the same keyvalues and outputs of the worldspawn   *)
(* and of the entities, in the same order, escaped quotes included.        *)
(* Stated for the lumps in which the reading found the worldspawn.         *)
(***************************************************************************)
EntityRoundTrip ==
    (/\ ent_pc = "reread"
     /\ ent_text = write_ent_data(FirstVMF, None).data
     /\ Entity_getitem(FirstVMF.spawn, CLASSNAME) = WORLDSPAWN)
        => (ent_err = "none" /\ SameVMF(ent_vmf2, FirstVMF))

(***************************************************************************)
(* C12  Every key/value line whose value contains the byte 0x1D is read as *)
(* an output: it is among the outputs of an entity and is not set as a     *)
(* keyvalue, however many commas the value has.                            *)
(***************************************************************************)
SeparatorMeansOutput ==
    ent_pc = "read" =>
        \A k \in 1..Len(LinesRead) :
            (~IsBrace(LinesRead[k]) /\ Contains(LineRawValue(LinesRead[k]), 29))
                => /\ StoredAsOutput(ent_vmf, LinesRead[k])
                   /\ ~StoredAsKeyvalue(ent_vmf, LinesRead[k])

(***************************************************************************)
(* C13  A value that does not contain the output separator byte 0x1D: with *)
(* exactly 4 commas it is parsed as an output, and when that parse fails   *)
(* it is stored as a plain keyvalue and no error is raised; with any other *)
(* number of commas it is stored as a plain keyvalue, never as an output.  *)
(* Told of every key/value line the loop comes to inside an entity, and of *)
(* the entity the line belongs to, as it is right after the line.          *)
(***************************************************************************)
\* the locals of the loop after k lines
RECURSIVE LoopAfter(_, _)
LoopAfter(lines, k) ==
    IF k = 0 THEN ReadEntStart ELSE ReadEntLine(LoopAfter(lines, k - 1), lines[k]).st

\* the loop comes to line k: no line before it raised or returned
ComesTo(lines, k) ==
    \A j \in 1..(k - 1) :
        LET r == ReadEntLine(LoopAfter(lines, j - 1), lines[j])
        IN r.err = "none" /\ ~r.done

CommaRule ==
    ent_pc \in {"read", "failed"} =>
        LET lines == splitlines(ent_lump, 1) IN
        \A k \in 1..Len(lines) :
            LET line == lines[k]
                st == LoopAfter(lines, k - 1)
                r == ReadEntLine(st, line)
                before == cur_ent(st)
                after == cur_ent(r.st)
                keyvalue == [key |-> LineKey(line), value |-> LineValue(line)]
                parsed == Output_parse(LineKey(line), LineValue(line))
            IN
            (/\ ComesTo(lines, k)
             /\ ~IsBrace(line) /\ line # NUL /\ st.cur # "none"
             /\ Len(split(line, KV_SEP, 2)) = 2
             /\ IsAscii(LineKey(line)) /\ IsAscii(LineValue(line))
             /\ ~Contains(LineRawValue(line), OUTPUT_SEP)) =>
               /\ r.err = "none"
               /\ IF count(LineRawValue(line), COMMA) = 4 /\ parsed.ok
                  THEN /\ after.outputs = Append(before.outputs, parsed.out)
                       /\ after.keys = before.keys
                  ELSE /\ \E i \in 1..Len(after.keys) : after.keys[i] = keyvalue
                       /\ after.outputs = before.outputs

(***************************************************************************)
(* C14  read_ent_data returns a VMF only when the first entity of the lump *)
(* has classname worldspawn: that entity is vmf.spawn and is not in        *)
(* vmf.entities, which holds every later entity in file order; a lump      *)
(* whose first entity has another classname, or with no entity at all,     *)
(* fails.                                                                  *)
(***************************************************************************)
WorldspawnFirst ==
    ent_pc = "read" =>
        LET opens == {k \in 1..Len(LinesRead) : LinesRead[k] = OPEN_BRACE} IN
          /\ opens # {}
          /\ Entity_getitem(ent_vmf.spawn, CLASSNAME) = WORLDSPAWN
          /\ Len(ent_vmf.entities) = Cardinality(opens) - 1
          /\ \A e \in 1..Len(ent_vmf.entities) :
                Entity_getitem(ent_vmf.entities[e], CLASSNAME) = INFO

(***************************************************************************)
(* C15  read_ent_data fails on every lump with imbalanced braces: an       *)
(* opening brace while an entity is open, a closing brace while none is,   *)
(* a key/value line outside braces, and input that ends, with or without   *)
(* the NUL line, while an entity is open.                                  *)
(***************************************************************************)
\* is some line of lines[k..] out of place, or an entity open at the end
RECURSIVE Imbalanced(_, _, _)
Imbalanced(lines, k, open) ==
    IF k > Len(lines) THEN open
    ELSE IF lines[k] = OPEN_BRACE THEN open \/ Imbalanced(lines, k + 1, TRUE)
    ELSE IF lines[k] = CLOSE_BRACE THEN ~open \/ Imbalanced(lines, k + 1, FALSE)
    ELSE ~open \/ Imbalanced(lines, k + 1, open)

ImbalancedBracesFail ==
    ent_pc = "read" => ~Imbalanced(LinesRead, 1, FALSE)

(***************************************************************************)
(* C16  read_ent_data fails whenever data follows the terminating NUL, on  *)
(* the line of the NUL or on later lines.                                  *)
(***************************************************************************)
\* a byte other than a line end after the first NUL of the lump
HasDataAfterNul(b) ==
    \E i \in 1..Len(b) :
        /\ b[i] = 0
        /\ \E j \in (i + 1)..Len(b) : b[j] \notin {10, 13}

DataAfterNulFails ==
    ent_pc = "read" => ~HasDataAfterNul(ent_lump)

(***************************************************************************)
(* BSP.packfile: the scope that edits the PAKFILE lump through a ZipFile.  *)
(* The archive is kept in a reduced layout: a local record per member      *)
(* (PK 3 4, name, length, data), and, written by close(), a central        *)
(* record per member (PK 1 2, name) and the end record (PK 5 6, count).    *)
(***************************************************************************)
ZipLocal(name, data) == <<80, 75, 3, 4, name, Len(data)>> \o data
ZipCentral(name) == <<80, 75, 1, 2, name>>
ZipEnd(n) == <<80, 75, 5, 6, n>>
ZIP_RECORD_SIZE == 5

RECURSIVE ZipCentralDir(_, _)
ZipCentralDir(names, n) ==
    IF n = 0 THEN <<>> ELSE ZipCentralDir(names, n - 1) \o ZipCentral(names[n])

ZIP_END_MAGIC == <<80, 75, 5, 6>>

ZIP_CENTRAL_MAGIC == <<80, 75, 1, 2>>

\* where the end record is looked for (zipfile._EndRecData): the last place
\* (from 1) at which its magic stands within the end record's size and the
\* 65536 bytes of the longest archive comment from the end of the data, 0
\* when it stands nowhere there
ZipEndPos(data) ==
    LET maxCommentStart == Max(Len(data) - 65536 - ZIP_RECORD_SIZE, 0)
        found == {i \in (maxCommentStart + 1)..(Len(data) - 3) :
                     SubSeq(data, i, i + 3) = ZIP_END_MAGIC}
    IN IF found = {} THEN 0
       ELSE CHOOSE i \in found : \A j \in found : j <= i

\* the number of members the end record of the data gives
ZipCount(data) == data[ZipEndPos(data) + 4]

\* where the central directory of the data starts (0-based): it ends where
\* the end record begins
ZipStartDir(data) == ZipEndPos(data) - 1 - ZIP_RECORD_SIZE * ZipCount(data)

ZipNames(data) ==
    [k \in 1..ZipCount(data) |-> data[ZipStartDir(data) + ZIP_RECORD_SIZE * k]]

\* the data holds an archive: a whole end record at the last place its magic
\* stands near the end of the data, and before it the central records it
\* counts
IsZip(data) ==
    /\ ZipEndPos(data) > 0
    /\ ZipEndPos(data) + 4 <= Len(data)
    /\ ZipStartDir(data) >= 0
    /\ SubSeq(data, ZipStartDir(data) + 1, ZipEndPos(data) - 1)
         = ZipCentralDir(ZipNames(data), ZipCount(data))

\* the data has a whole end record, and the central directory it counts
\* begins within the data
ZipHasDir(data) ==
    /\ ZipEndPos(data) > 0
    /\ ZipEndPos(data) + 4 <= Len(data)
    /\ ZipStartDir(data) >= 0

\* the names of the central records read from pos (from 0) on, of the n that
\* the end record counts (zipfile._RealGetContents): reading ends at a
\* record that does not begin with the magic
RECURSIVE ZipReadNames(_, _, _)
ZipReadNames(data, pos, n) ==
    IF n = 0 \/ SubSeq(data, pos + 1, pos + 4) # ZIP_CENTRAL_MAGIC THEN <<>>
    ELSE <<data[pos + ZIP_RECORD_SIZE]>> \o ZipReadNames(data, pos + ZIP_RECORD_SIZE, n - 1)

\* the handle after the central directory was read: with all its records
\* the archive is opened for appending at its central directory; after a
\* bad record the members read so far are kept and a new central directory
\* will be written after the last byte of the data
ZipOpened(data, names) ==
    IF Len(names) = ZipCount(data)
    THEN [file |-> data, start_dir |-> ZipStartDir(data), names |-> names, didModify |-> FALSE]
    ELSE [file |-> data, start_dir |-> Len(data), names |-> names, didModify |-> TRUE]

\* ZipFile(BytesIO(data), mode='a'): data without a central directory gets
\* a new archive after its last byte.  The file of the handle is the bytes
\* the handle has read or written: all the data from opening to the first
\* writestr and after close(), and between them the bytes up to start_dir
ZipFile(data) ==
    IF ZipHasDir(data)
    THEN ZipOpened(data, ZipReadNames(data, ZipStartDir(data), ZipCount(data)))
    ELSE [file |-> data, start_dir |-> Len(data), names |-> <<>>, didModify |-> TRUE]

\* zip_file.writestr(name, data), by the body of the scope: the local record
\* is written at start_dir, where the central directory of an opened
\* archive stands.  What is left of that directory behind the record is not
\* kept here: close() writes over it and cuts the file off
ZipWritestr(zip, name, data) ==
    [file |-> SubSeq(zip.file, 1, zip.start_dir) \o ZipLocal(name, data),
     start_dir |-> zip.start_dir + Len(ZipLocal(name, data)),
     names |-> Append(zip.names, name),
     didModify |-> TRUE]

\* zip_file.close(): writes the central directory and the end record at
\* start_dir and truncates the file after them
ZipClose(zip) ==
    IF zip.didModify
    THEN [zip EXCEPT !.file = SubSeq(zip.file, 1, zip.start_dir)
                                \o ZipCentralDir(zip.names, Len(zip.names))
                                \o ZipEnd(Len(zip.names))]
    ELSE zip

\* the scope is left normally: close the archive, store its bytes
PackfileExit_Unclosed(obj, zip) == [obj EXCEPT !.lumps[PAKFILE].data = zip.file]

PackfileExit(obj, zip) == [obj EXCEPT !.lumps[PAKFILE].data = ZipClose(zip).file]

\* the body raised: the generator is not resumed after its yield
PackfileAbort(obj, zip) == obj

\* members written in one scope
MaxZipWrites == 2

\* a BSP object with the given PAKFILE data and n game lumps
PakBsp(pak_data, n) ==
    [version |-> EnumVersion(20), map_revision |-> 1,
     lumps |-> [i \in BSP_LUMPS |->
                  [Lump(0, <<0, 0, 0, 0>>) EXCEPT
                     !.data = IF i = PAKFILE THEN pak_data
                              ELSE IF i = ENTITIES THEN Payload(MaxData, 1)
                              ELSE IF i = DISP_MULTIBLEND THEN Payload(1, 200)
                              ELSE <<>>]],
     game_lumps |-> [j \in 1..n |-> InputGameLump(j)]]

\* the archive with the magic of its second central record damaged
ZipDamaged(data) == [data EXCEPT ![ZipStartDir(data) + ZIP_RECORD_SIZE + 4] = 9]

\* PAKFILE data: none, bytes that are no archive, an archive without
\* members, archives with one and two members, an archive followed by a
\* byte, an archive with a damaged central record
InputPakData ==
    {<<>>, Payload(MaxData, 80), ZipEnd(0),
     ZipClose(ZipWritestr(ZipFile(<<>>), 1, Payload(1, 9))).file,
     ZipClose(ZipWritestr(ZipWritestr(ZipFile(<<7>>), 1, <<>>), 2, Payload(2, 9))).file,
     ZipClose(ZipWritestr(ZipFile(<<>>), 1, Payload(1, 9))).file \o <<0>>,
     ZipDamaged(ZipClose(ZipWritestr(ZipWritestr(ZipFile(<<>>), 1, <<>>), 2, <<>>)).file)}

InitPak ==
    /\ ContainerIdle /\ PropsIdle /\ EntsIdle /\ VisIdle /\ TexIdle /\ AngIdle /\ RotIdle /\ AxIdle /\ GridIdle /\ SaveIdle
    /\ pak_pc = "start"
    /\ \E data \in InputPakData, n \in {0, 2} : pak_bsp = PakBsp(data, n)
    /\ pak_zip = None
    /\ pak_old = pak_bsp

\* with bsp.packfile() as zip_file:
PackfileEnter ==
    /\ pak_pc = "start"
    /\ pak_zip' = ZipFile(pak_bsp.lumps[PAKFILE].data)
    /\ pak_pc' = "open"
    /\ UNCHANGED <<pak_bsp, pak_old, nonPakVars>>

\* the body writes a member
PackfileWrite(name, data) ==
    /\ pak_pc = "open"
    /\ Len(pak_zip.names) < Len(ZipFile(pak_old.lumps[PAKFILE].data).names) + MaxZipWrites
    /\ pak_zip' = ZipWritestr(pak_zip, name, data)
    /\ UNCHANGED <<pak_pc, pak_bsp, pak_old, nonPakVars>>

\* the body ends: the generator goes on after its yield
PackfileReturn ==
    /\ pak_pc = "open"
    /\ pak_bsp' = PackfileExit(pak_bsp, pak_zip)
    /\ pak_zip' = ZipClose(pak_zip)
    /\ pak_pc' = "closed"
    /\ UNCHANGED <<pak_old, nonPakVars>>

\* the body raises
PackfileRaise ==
    /\ pak_pc = "open"
    /\ pak_bsp' = PackfileAbort(pak_bsp, pak_zip)
    /\ pak_pc' = "raised"
    /\ UNCHANGED <<pak_zip, pak_old, nonPakVars>>

NextPak ==
    \/ PackfileEnter
    \/ \E name \in {1, 2}, data \in {<<>>, Payload(1, 9)} : PackfileWrite(name, data)
    \/ PackfileReturn
    \/ PackfileRaise

SpecPak == InitPak /\ [][NextPak]_vars

\* every lump but PAKFILE, and every game lump, is as when the scope began
OthersUntouched ==
    /\ pak_bsp.game_lumps = pak_old.game_lumps
    /\ pak_bsp.version = pak_old.version
    /\ pak_bsp.map_revision = pak_old.map_revision
    /\ \A i \in BSP_LUMPS \ {PAKFILE} : pak_bsp.lumps[i] = pak_old.lumps[i]

(***************************************************************************)
(* C17  The packfile scope: when its body completes, the data of the       *)
(* PAKFILE lump is the finalized archive (the bytes of the handle, ending  *)
(* with the central directory of all its members); when the body raises,   *)
(* the data is what it was when the scope was entered; no other lump and   *)
(* no game lump changes in either case.                                    *)
(***************************************************************************)
PackfileScope ==
    /\ pak_pc = "closed" =>
         LET data == pak_bsp.lumps[PAKFILE].data IN
           /\ data = pak_zip.file
           /\ IsZip(data)
           /\ ZipNames(data) = pak_zip.names
           /\ OthersUntouched
    /\ pak_pc = "raised" => pak_bsp = pak_old

\* a scope that wrote a member to bytes that were no archive has ended
\* normally, in a BSP with game lumps
PackfileScopeWitness ==
    /\ pak_pc = "closed"
    /\ ~IsZip(pak_old.lumps[PAKFILE].data)
    /\ Len(pak_zip.names) > 0
    /\ pak_bsp.lumps[PAKFILE].data # pak_old.lumps[PAKFILE].data
    /\ Len(pak_bsp.game_lumps) = 2

(***************************************************************************)
(* BSP.vis_tree: the PLANES, NODES and LEAFS lumps and the linked tree     *)
(***************************************************************************)
\* struct '<h': a signed 16-bit little-endian integer
PackI16(v) == PackU16(v % 65536)

UnpackI16(b) == LET u == UnpackU16(b) IN IF u >= 32768 THEN u - 65536 ELSE u

I16At(b, pos) == UnpackI16(SubSeq(b, pos + 1, pos + 2))

\* '<ffffi'
PLANE_SIZE == 20
\* '<iii6hHHh2x'
NODE_SIZE == 32
\* '<ihh6h4Hh2x', and with '26x' more
LEAF_SIZE == 32
LEAF_AMBIENT_SIZE == 58

\* Vec(x, y, z) of three '<h' at pos
VecI16At(b, pos) == << I16At(b, pos), I16At(b, pos + 2), I16At(b, pos + 4) >>

\* seq[i] of a Python list: a negative index counts from the end
InRange(seq, i) == i < Len(seq) /\ i >= 0 - Len(seq)
PyIndex(seq, i) == IF i < 0 THEN seq[Len(seq) + i + 1] ELSE seq[i + 1]

\* area_and_flags & 0b1111111110000000, of a Python int
AreaMasked_Shifted(area_and_flags) == (area_and_flags % 65536) \div 128

AreaMasked(area_and_flags) == (area_and_flags % 65536) - (area_and_flags % 128)

\* area_and_flags & 0b0000000001111111
FlagsMasked(area_and_flags) == area_and_flags % 128

\* VisLeaf(...)
VisLeaf(leaf_id, area_and_flags, mins, maxes, first_face, face_count, first_brush, brush_count, water_id) ==
    [id |-> leaf_id,
     area |-> AreaMasked(area_and_flags),
     flags |-> FlagsMasked(area_and_flags),
     mins |-> mins, maxes |-> maxes,
     first_face |-> first_face, face_count |-> face_count,
     first_brush |-> first_brush, brush_count |-> brush_count,
     water_id |-> water_id]

\* VisTree(norm, dist, mins, maxes): the children are None until linked
VisTree(norm, dist, mins, maxes) ==
    [plane_norm |-> norm, plane_dist |-> dist, mins |-> mins, maxes |-> maxes,
     child_neg |-> None, child_pos |-> None]

\* a child is an object of one of the two lists
LeafRef(i) == [kind |-> "leaf", ind |-> i]
NodeRef(i) == [kind |-> "node", ind |-> i]

\* the planes list
ReadPlanes(data) ==
    [k \in 1..(Len(data) \div PLANE_SIZE) |->
        [norm |-> Vec3At(data, PLANE_SIZE * (k - 1)),
         dist |-> UnpackF32(SubSeq(data, PLANE_SIZE * (k - 1) + 13, PLANE_SIZE * (k - 1) + 16))]]

\* the fields of the k-th record of NODES that vis_tree uses
NodeRecord(data, k) ==
    LET pos == NODE_SIZE * (k - 1) IN
    [plane_ind |-> UnpackI32(SubSeq(data, pos + 1, pos + 4)),
     neg_ind |-> UnpackI32(SubSeq(data, pos + 5, pos + 8)),
     pos_ind |-> UnpackI32(SubSeq(data, pos + 9, pos + 12)),
     mins |-> VecI16At(data, pos + 12),
     maxes |-> VecI16At(data, pos + 18)]

\* the k-th record of LEAFS, of the given size, as a VisLeaf
ReadLeaf(data, k, size) ==
    LET pos == size * (k - 1) IN
    VisLeaf(k - 1, I16At(data, pos + 6),
            VecI16At(data, pos + 8), VecI16At(data, pos + 14),
            UnpackU16(SubSeq(data, pos + 21, pos + 22)),
            UnpackU16(SubSeq(data, pos + 23, pos + 24)),
            UnpackU16(SubSeq(data, pos + 25, pos + 26)),
            UnpackU16(SubSeq(data, pos + 27, pos + 28)),
            I16At(data, pos + 28))

\* node.child_xxx = leafs[-1 - ind] or nodes[ind][0]
ChildOk(ind, nodes, leafs) ==
    IF ind < 0 THEN InRange(leafs, -1 - ind) ELSE InRange(nodes, ind)

Child_NoSentinel(ind) == IF ind < 0 THEN LeafRef(0 - ind) ELSE NodeRef(ind)

Child(ind) == IF ind < 0 THEN LeafRef(-1 - ind) ELSE NodeRef(ind)

\* BSP.vis_tree(), given the version and the data of the three lumps
vis_tree(obj) ==
    LET fail(e) == [err |-> e, out |-> None]
        planes == ReadPlanes(obj.planes)
        node_count == Len(obj.nodes) \div NODE_SIZE
        records == [k \in 1..node_count |-> NodeRecord(obj.nodes, k)]
        leaf_size == IF obj.version.value <= 19 THEN LEAF_AMBIENT_SIZE ELSE LEAF_SIZE
        leafs == [k \in 1..(Len(obj.leafs) \div leaf_size) |->
                    ReadLeaf(obj.leafs, k, leaf_size)]
        nodes == [k \in 1..node_count |->
                    LET plane == PyIndex(planes, records[k].plane_ind) IN
                    [VisTree(plane.norm, plane.dist, records[k].mins, records[k].maxes)
                       EXCEPT !.child_neg = Child(records[k].neg_ind),
                              !.child_pos = Child(records[k].pos_ind)]]
    IN IF Len(obj.planes) % PLANE_SIZE # 0 THEN fail("struct.error")
       ELSE IF Len(obj.nodes) % NODE_SIZE # 0 THEN fail("struct.error")
       ELSE IF \E k \in 1..node_count : ~InRange(planes, records[k].plane_ind)
       THEN fail("IndexError")
       ELSE IF obj.version.kind # "VERSIONS" THEN fail("AttributeError")
       ELSE IF Len(obj.leafs) % leaf_size # 0 THEN fail("struct.error")
       ELSE IF \E k \in 1..node_count :
                 \/ ~ChildOk(records[k].neg_ind, records, leafs)
                 \/ ~ChildOk(records[k].pos_ind, records, leafs)
       THEN fail("IndexError")
       ELSE IF node_count = 0 THEN fail("IndexError")
       ELSE [err |-> "none", out |-> [nodes |-> nodes, leafs |-> leafs, root |-> NodeRef(0)]]

(***************************************************************************)
(* The vis tree as a state machine: a BSP with the three lumps, and the    *)
(* call of vis_tree                                                        *)
(***************************************************************************)
\* records in the NODES lump
MaxNodes == 2
\* records in the LEAFS lump
MaxLeafs == 2

\* a record of PLANES: the normal, the distance, the flags
InputPlane(k) == PackVec3(<<k, 0, 1>>) \o PackF32(16 * k) \o PackI32(0)

\* a record of NODES with the given plane and children
InputNode(k, plane_ind, neg_ind, pos_ind) ==
    PackI32(plane_ind) \o PackI32(neg_ind) \o PackI32(pos_ind)
      \o PackI16(0 - k) \o PackI16(-2) \o PackI16(-3)
      \o PackI16(k) \o PackI16(2) \o PackI16(3)
      \o PackU16(k) \o PackU16(1) \o PackI16(0) \o <<0, 0>>

\* the area_and_flags fields of the leafs of the inputs
AreaAndFlagsInputs == <<0, 1, 127, 128, 133, 640, 32767, -32768, -1>>

\* a record of LEAFS, with the ambient padding or without
InputLeaf(k, area_and_flags, ambient) ==
    PackI32(1) \o PackI16(k) \o PackI16(area_and_flags)
      \o PackI16(0 - k) \o PackI16(-5) \o PackI16(-6)
      \o PackI16(k) \o PackI16(5) \o PackI16(6)
      \o PackU16(k) \o PackU16(2) \o PackU16(3) \o PackU16(4)
      \o PackI16(-1) \o <<0, 0>>
      \o (IF ambient THEN Zeros(LEAF_AMBIENT_SIZE - LEAF_SIZE) ELSE <<>>)

\* the child indices of the inputs
InputChildren == {-2, -1, 0, 1}

RECURSIVE InputNodeLumps(_)
InputNodeLumps(n) ==
    IF n = 0 THEN {<<>>}
    ELSE InputNodeLumps(n - 1) \cup
         {lump \o InputNode(n, n % 2, neg_ind, pos_ind) :
            lump \in {l \in InputNodeLumps(n - 1) : Len(l) = NODE_SIZE * (n - 1)},
            neg_ind \in InputChildren, pos_ind \in InputChildren}

RECURSIVE InputLeafLump(_, _, _)
InputLeafLump(n, seed, ambient) ==
    IF n = 0 THEN <<>>
    ELSE InputLeafLump(n - 1, seed, ambient)
           \o InputLeaf(n, AreaAndFlagsInputs[((seed + n) % Len(AreaAndFlagsInputs)) + 1],
                        ambient)

InputLeafLumps ==
    {InputLeafLump(n, seed, FALSE) : n \in 0..MaxLeafs, seed \in 1..Len(AreaAndFlagsInputs)}
    \cup {InputLeafLump(n, 1, TRUE) : n \in 0..MaxLeafs}

InputVisVersions == {EnumVersion(19), EnumVersion(20), IntVersion(25)}

InitVis ==
    /\ ContainerIdle /\ PropsIdle /\ EntsIdle /\ PakIdle /\ TexIdle /\ AngIdle /\ RotIdle /\ AxIdle /\ GridIdle /\ SaveIdle
    /\ vis_pc = "start"
    /\ \E version \in InputVisVersions, nodes \in InputNodeLumps(MaxNodes),
          leafs \in InputLeafLumps :
         vis_bsp = [version |-> version,
                    planes |-> InputPlane(1) \o InputPlane(2),
                    nodes |-> nodes, leafs |-> leafs]
    /\ vis_out = None
    /\ vis_err = "none"

\* tree = bsp.vis_tree()
VisTreeCall ==
    /\ vis_pc = "start"
    /\ LET r == vis_tree(vis_bsp) IN
         /\ vis_out' = r.out
         /\ vis_err' = r.err
         /\ vis_pc' = IF r.err = "none" THEN "built" ELSE "failed"
    /\ UNCHANGED <<vis_bsp, nonVisVars>>

NextVis == VisTreeCall

SpecVis == InitVis /\ [][NextVis]_vars

(***************************************************************************)
(* Reading the tree and the lumps, for the properties                      *)
(***************************************************************************)
\* the child index the k-th record of NODES holds for a side
RawChild(k, side) ==
    UnpackI32(SubSeq(vis_bsp.nodes, NODE_SIZE * (k - 1) + (IF side = "neg" THEN 5 ELSE 9),
                     NODE_SIZE * (k - 1) + (IF side = "neg" THEN 8 ELSE 12)))

\* the child object a node of the tree has on a side
ChildOf(k, side) ==
    IF side = "neg" THEN vis_out.nodes[k].child_neg ELSE vis_out.nodes[k].child_pos

Sides == {"neg", "pos"}

\* the area_and_flags field of the k-th record of LEAFS
RawAreaAndFlags(k) ==
    I16At(vis_bsp.leafs, (Len(vis_bsp.leafs) \div Len(vis_out.leafs)) * (k - 1) + 6)

\* the nodes (as indices of the list, from 0) that are children of node i
NodeChildren(i) ==
    {ChildOf(i + 1, side).ind : side \in {x \in Sides : ChildOf(i + 1, x).kind = "node"}}

\* the nodes reached from the nodes of set in at most n steps of child links
RECURSIVE Descendants(_, _)
Descendants(set, n) ==
    IF n = 0 THEN {}
    ELSE LET next == UNION {NodeChildren(i) : i \in set}
         IN next \cup Descendants(next, n - 1)

\* the nodes of the tree: the root and its descendants
TreeNodes == {0} \cup Descendants({0}, Len(vis_out.nodes))

(***************************************************************************)
(* C18  After vis_tree returns, every node has both children populated,    *)
(* each by the sentinel rule: a child index c < 0 is the leaf at index     *)
(* -1 - c of LEAFS, a child index c >= 0 is the node at index c of NODES;  *)
(* the root returned is node 0.                                            *)
(***************************************************************************)
SentinelRule ==
    vis_pc = "built" =>
        /\ vis_out.root = NodeRef(0)
        /\ \A k \in 1..Len(vis_out.nodes) : \A side \in Sides :
             LET c == RawChild(k, side) IN
               /\ ChildOf(k, side) # None
               /\ IF c < 0
                  THEN /\ ChildOf(k, side) = LeafRef(-1 - c)
                       /\ -1 - c < Len(vis_out.leafs)
                       /\ vis_out.leafs[-1 - c + 1].id = -1 - c
                  ELSE /\ ChildOf(k, side) = NodeRef(c)
                       /\ c < Len(vis_out.nodes)

\* a tree of two nodes was built: the negative child of node 0 is leaf 0
\* (index -1), its positive child is node 1, whose children are leafs
SentinelRuleWitness ==
    /\ vis_pc = "built"
    /\ Len(vis_out.nodes) = 2
    /\ RawChild(1, "neg") = -1 /\ vis_out.nodes[1].child_neg = LeafRef(0)
    /\ RawChild(1, "pos") = 1 /\ vis_out.nodes[1].child_pos = NodeRef(1)
    /\ RawChild(2, "neg") = -2 /\ RawChild(2, "pos") = -1

(***************************************************************************)
(* C19  Whenever vis_tree returns a tree, the child links reachable from   *)
(* the root are acyclic (no node is its own descendant) and no leaf is the *)
(* child of more than one node slot.                                       *)
(***************************************************************************)
TreeIsAcyclic ==
    vis_pc = "built" =>
        /\ \A i \in TreeNodes : i \notin Descendants({i}, Len(vis_out.nodes))
        /\ \A i, j \in TreeNodes : \A a, b \in Sides :
             (ChildOf(i + 1, a).kind = "leaf" /\ ChildOf(i + 1, a) = ChildOf(j + 1, b))
                => (i = j /\ a = b)

(***************************************************************************)
(* C20  For every 16-bit area_and_flags of a leaf record, the VisLeaf has  *)
(* flags equal to the field in bits 0..6 (0..127) and area equal to the    *)
(* field in bits 7..15 (0..511).                                           *)
(***************************************************************************)
AreaAndFlagsSplit ==
    vis_pc = "built" =>
        \A k \in 1..Len(vis_out.leafs) :
            LET bits == RawAreaAndFlags(k) % 65536 IN
              /\ vis_out.leafs[k].flags = bits % 128
              /\ vis_out.leafs[k].area = bits \div 128
              /\ vis_out.leafs[k].flags \in 0..127
              /\ vis_out.leafs[k].area \in 0..511

(***************************************************************************)
(* C21  vis_tree decodes LEAFS with 58-byte records when the file version  *)
(* is <= 19 and with 32-byte records otherwise, for every version the      *)
(* reading accepts, the integers the VERSIONS table does not have          *)
(* included: the call never fails for want of the version's value, and a   *)
(* tree that is built has one leaf per record of that size.                *)
(***************************************************************************)
LeafRecordSize ==
    LET size == IF vis_bsp.version.value <= 19 THEN LEAF_AMBIENT_SIZE ELSE LEAF_SIZE IN
    vis_pc # "start" =>
        /\ vis_err # "AttributeError"
        /\ vis_pc = "built" => Len(vis_out.leafs) * size = Len(vis_bsp.leafs)
        /\ vis_err = "struct.error" => Len(vis_bsp.leafs) % size # 0

(***************************************************************************)
(* The texture names (bsp.py: BSP.read_texture_names), a generator: each   *)
(* next() of the caller runs it up to its next yield, its end or its error *)
(***************************************************************************)
\* strings are limited to 128 chars: range(off, off + 128)
TEX_NAME_LIMIT == 128

\* seq[lo:hi] of Python: negative indices count from the end, both are clamped
Slice(seq, lo, hi) ==
    LET norm(i) == IF i < 0 THEN Max(Len(seq) + i, 0) ELSE Min(i, Len(seq))
    IN SubSeq(seq, norm(lo) + 1, norm(hi))

\* bytes.decode('ascii'): the code points are the bytes, none may be >= 128
decode_ascii(b) == [ok |-> IsAscii(b), text |-> [i \in 1..Len(b) |-> b[i]]]

\* struct.unpack(str(len(tex_table) // 4) + 'i', tex_table) needs exactly
\* the bytes of its format
TableOk(tex_table) == Len(tex_table) = 4 * (Len(tex_table) \div 4)

table_offsets(tex_table) ==
    [k \in 1..(Len(tex_table) \div 4) |-> UnpackI32(SubSeq(tex_table, 4 * k - 3, 4 * k))]

\* the inner loop for one offset: the first index of range(off, off + 128)
\* that is outside tex_data raises IndexError, the first that holds a NUL
\* yields the decoded slice, and a loop that ends raises ValueError
ScanName(tex_data, off) ==
    LET range == off..(off + TEX_NAME_LIMIT - 1)
        outside == {j \in range : ~InRange(tex_data, j)}
        nuls == {j \in range : InRange(tex_data, j) /\ PyIndex(tex_data, j) = 0}
        first(set) == CHOOSE j \in set : \A i \in set : j <= i
        name == decode_ascii(Slice(tex_data, off, first(nuls)))
    IN IF outside # {} /\ (nuls = {} \/ first(outside) < first(nuls))
       THEN [err |-> "IndexError", name |-> <<>>]
       ELSE IF nuls = {} THEN [err |-> "ValueError", name |-> <<>>]
       ELSE IF ~name.ok THEN [err |-> "UnicodeDecodeError", name |-> <<>>]
       ELSE [err |-> "none", name |-> name.text]

(***************************************************************************)
(* The texture names as a state machine                                    *)
(***************************************************************************)
\* strings in the TEXDATA_STRING_DATA of an input
MaxNames == 2
\* offsets in the TEXDATA_STRING_TABLE of an input
MaxOffsets == 2

\* n bytes 'x'
Run(n) == [i \in 1..n |-> 120]

\* the strings of the inputs: a short one, the empty one, the longest one
\* whose NUL is within the limit, the shortest one whose NUL is not
InputNames == {<<97, 98, 0>>, <<0>>, Run(TEX_NAME_LIMIT - 1) \o <<0>>, Run(TEX_NAME_LIMIT) \o <<0>>}

\* how the string data ends: with the last NUL, with a string that has no
\* NUL, with a string that is not ASCII
InputTails == {<<>>, <<99, 100>>, <<97, 233, 0>>}

RECURSIVE InputNameData(_)
InputNameData(n) ==
    IF n = 0 THEN {<<>>}
    ELSE InputNameData(n - 1) \cup
         {d \o s : d \in InputNameData(n - 1), s \in InputNames}

InputOffsets == {0, 1, 3, TEX_NAME_LIMIT, TEX_NAME_LIMIT + 1, -1}

RECURSIVE InputOffsetTables(_)
InputOffsetTables(n) ==
    IF n = 0 THEN {<<>>}
    ELSE InputOffsetTables(n - 1) \cup
         {t \o PackI32(off) : t \in InputOffsetTables(n - 1), off \in InputOffsets}

\* the tables, and two whose length is not a multiple of 4
InputTables == InputOffsetTables(MaxOffsets) \cup {<<1>>, PackI32(0) \o <<1, 2>>}

InitTex ==
    /\ ContainerIdle /\ PropsIdle /\ EntsIdle /\ PakIdle /\ VisIdle /\ AngIdle /\ RotIdle /\ AxIdle /\ GridIdle /\ SaveIdle
    /\ tex_pc = "start"
    /\ \E d \in InputNameData(MaxNames), tail \in InputTails, t \in InputTables :
         tex_bsp = [tex_data |-> d \o tail, tex_table |-> t]
    /\ tex_pos = 0
    /\ tex_names = <<>>
    /\ tex_err = "none"

\* next(names), for names = bsp.read_texture_names()
TexNext ==
    /\ tex_pc \in {"start", "running"}
    /\ IF ~TableOk(tex_bsp.tex_table)
       THEN /\ tex_pc' = "failed" /\ tex_err' = "struct.error"
            /\ UNCHANGED <<tex_pos, tex_names>>
       ELSE LET offs == table_offsets(tex_bsp.tex_table) IN
            IF tex_pos = Len(offs)
            THEN /\ tex_pc' = "done"
                 /\ UNCHANGED <<tex_pos, tex_names, tex_err>>
            ELSE LET r == ScanName(tex_bsp.tex_data, offs[tex_pos + 1]) IN
                 IF r.err = "none"
                 THEN /\ tex_pc' = "running"
                      /\ tex_pos' = tex_pos + 1
                      /\ tex_names' = Append(tex_names, r.name)
                      /\ UNCHANGED tex_err
                 ELSE /\ tex_pc' = "failed" /\ tex_err' = r.err
                      /\ UNCHANGED <<tex_pos, tex_names>>
    /\ UNCHANGED <<tex_bsp, nonTexVars>>

NextTex == TexNext

SpecTex == InitTex /\ [][NextTex]_vars

\* a NUL occurs within the 128 bytes starting at the offset
NulWithinLimit(off) ==
    \E j \in off..(off + TEX_NAME_LIMIT - 1) :
        j < Len(tex_bsp.tex_data) /\ tex_bsp.tex_data[j + 1] = 0

\* the bytes from the offset up to the first NUL
UpToFirstNul(off) ==
    LET nul == CHOOSE j \in off..Len(tex_bsp.tex_data) :
                 /\ tex_bsp.tex_data[j + 1] = 0
                 /\ \A i \in off..(j - 1) : tex_bsp.tex_data[i + 1] # 0
    IN SubSeq(tex_bsp.tex_data, off + 1, nul)

(***************************************************************************)
(* C22  read_texture_names yields, for each offset of the table in table   *)
(* order, the bytes of the string data from that offset up to the first    *)
(* NUL when a NUL occurs within the 128 bytes starting at the offset, and  *)
(* otherwise fails with a ValueError, also when the string data ends       *)
(* before any NUL is found.  (Stated for ASCII string data, a table of     *)
(* whole 32-bit offsets and offsets that are not negative.)                *)
(***************************************************************************)
TextureNamesOrBadString ==
    LET offs == table_offsets(tex_bsp.tex_table) IN
    (/\ tex_pc \notin {"idle", "start"}
     /\ IsAscii(tex_bsp.tex_data)
     /\ TableOk(tex_bsp.tex_table)
     /\ \A k \in 1..Len(offs) : offs[k] >= 0) =>
        /\ Len(tex_names) = tex_pos
        /\ \A k \in 1..tex_pos :
             NulWithinLimit(offs[k]) /\ tex_names[k] = UpToFirstNul(offs[k])
        /\ tex_pc = "done" => tex_pos = Len(offs)
        /\ tex_pc = "failed" =>
             tex_err = "ValueError" /\ ~NulWithinLimit(offs[tex_pos + 1])

(***************************************************************************)
(* The floats of Python are IEEE 754 doubles.  The whole numbers they are  *)
(* computed with are sequences of limbs, the least significant first, each *)
(* limb below BASE; the number 0 is the empty sequence, and the last limb  *)
(* of a number is not 0.                                                   *)
(***************************************************************************)
BASE == 2 ^ 15

Limb(a, i) == IF i <= Len(a) THEN a[i] ELSE 0

RECURSIVE BigTrim(_)
BigTrim(a) ==
    IF a = <<>> THEN a
    ELSE IF a[Len(a)] = 0 THEN BigTrim(SubSeq(a, 1, Len(a) - 1))
    ELSE a

\* the number n, 0 <= n < 2^31
Big(n) == BigTrim(<<n % BASE, (n \div BASE) % BASE, n \div (BASE * BASE)>>)

\* the bits of a limb, and of a number
BitLen(n) == CHOOSE b \in 0..15 : n < 2 ^ b /\ (b = 0 \/ n >= 2 ^ (b - 1))

BigBitLen(a) == IF a = <<>> THEN 0 ELSE 15 * (Len(a) - 1) + BitLen(a[Len(a)])

RECURSIVE BigCmpFrom(_, _, _)
BigCmpFrom(a, b, i) ==
    IF i = 0 THEN 0
    ELSE IF a[i] > b[i] THEN 1
    ELSE IF a[i] < b[i] THEN -1
    ELSE BigCmpFrom(a, b, i - 1)

\* -1, 0 or 1 as a is less than, equal to or greater than b
BigCmp(a, b) ==
    IF Len(a) > Len(b) THEN 1
    ELSE IF Len(a) < Len(b) THEN -1
    ELSE BigCmpFrom(a, b, Len(a))

\* the loops below go limb by limb, acc holding the limbs already made
RECURSIVE BigAddLoop(_, _, _, _)
BigAddLoop(a, b, carry, acc) ==
    IF Len(acc) >= Len(a) /\ Len(acc) >= Len(b) THEN (IF carry = 0 THEN acc ELSE Append(acc, carry))
    ELSE LET t == Limb(a, Len(acc) + 1) + Limb(b, Len(acc) + 1) + carry
         IN BigAddLoop(a, b, t \div BASE, Append(acc, t % BASE))

BigAdd(a, b) == BigAddLoop(a, b, 0, <<>>)

RECURSIVE BigSubLoop(_, _, _, _)
BigSubLoop(a, b, borrow, acc) ==
    IF Len(acc) >= Len(a) THEN acc
    ELSE LET t == a[Len(acc) + 1] - Limb(b, Len(acc) + 1) - borrow
         IN BigSubLoop(a, b, IF t < 0 THEN 1 ELSE 0, Append(acc, IF t < 0 THEN t + BASE ELSE t))

\* a - b, for a >= b
BigSub(a, b) == BigTrim(BigSubLoop(a, b, 0, <<>>))

RECURSIVE BigMulSmallLoop(_, _, _, _)
BigMulSmallLoop(a, k, carry, acc) ==
    IF Len(acc) >= Len(a) THEN (IF carry = 0 THEN acc ELSE Append(acc, carry))
    ELSE LET t == a[Len(acc) + 1] * k + carry
         IN BigMulSmallLoop(a, k, t \div BASE, Append(acc, t % BASE))

\* a * k, for 0 <= k <= BASE
BigMulSmall(a, k) == IF k = 0 THEN <<>> ELSE BigMulSmallLoop(a, k, 0, <<>>)

RECURSIVE BigDivSmallLoop(_, _, _, _)
BigDivSmallLoop(a, k, rem, acc) ==
    IF Len(acc) >= Len(a) THEN [q |-> BigTrim(acc), r |-> rem]
    ELSE LET t == rem * BASE + a[Len(a) - Len(acc)]
         IN BigDivSmallLoop(a, k, t % k, <<t \div k>> \o acc)

\* the quotient and the remainder of a by k, for 0 < k <= BASE
BigDivSmall(a, k) == BigDivSmallLoop(a, k, 0, <<>>).q

BigModSmall(a, k) == BigDivSmallLoop(a, k, 0, <<>>).r

\* a * BASE^n and a \div BASE^n
BigShlLimbs(a, n) == IF a = <<>> \/ n = 0 THEN a ELSE [i \in 1..n |-> 0] \o a

BigShrLimbs(a, n) == IF n >= Len(a) THEN <<>> ELSE SubSeq(a, n + 1, Len(a))

\* a * 2^n and a \div 2^n
BigShl(a, n) == BigShlLimbs(BigMulSmall(a, 2 ^ (n % 15)), n \div 15)

BigShr(a, n) == BigDivSmall(BigShrLimbs(a, n \div 15), 2 ^ (n % 15))

RECURSIVE BigMulLoop(_, _, _, _)
BigMulLoop(a, b, j, acc) ==
    IF j > Len(b) \/ Len(acc) > Len(a) + Len(b) THEN acc
    ELSE BigMulLoop(a, b, j + 1, BigAdd(acc, BigShlLimbs(BigMulSmall(a, b[j]), j - 1)))

BigMul(a, b) == BigMulLoop(a, b, 1, <<>>)

\* the limb of the quotient of rem by b, for rem < b * BASE and a b whose
\* last limb is BASE / 2 or more: the guess from the leading limbs is at
\* most 2 too large
QuotientLimb(rem, b) ==
    IF BigCmp(rem, b) < 0 THEN 0
    ELSE LET n == Len(b)
             top == Limb(rem, n + 1) * BASE + Limb(rem, n)
             guess == Min(BASE - 1, top \div b[n])
             p == BigMulSmall(b, guess)
         IN IF BigCmp(p, rem) <= 0 THEN guess
            ELSE IF BigCmp(BigSub(p, b), rem) <= 0 THEN guess - 1
            ELSE guess - 2

RECURSIVE BigDivLoop(_, _, _, _)
BigDivLoop(a, b, rem, acc) ==
    IF Len(acc) >= Len(a) THEN [q |-> BigTrim(acc), r |-> rem]
    ELSE LET cur == BigTrim(<<a[Len(a) - Len(acc)]>> \o rem)
             d == QuotientLimb(cur, b)
         IN BigDivLoop(a, b, BigSub(cur, BigMulSmall(b, d)), <<d>> \o acc)

\* the result of a division of numbers scaled by 2^s
BigUnscaled(res, s) == [q |-> res.q, r |-> BigShr(res.r, s)]

\* the quotient and the remainder of a by b > 0: long division, both
\* scaled for the last limb of the divisor to be BASE / 2 or more
BigDivMod(a, b) ==
    LET s == 15 - BitLen(b[Len(b)])
    IN BigUnscaled(BigDivLoop(BigShl(a, s), BigShl(b, s), <<>>, <<>>), s)

RECURSIVE BigSqrtLoop(_, _)
BigSqrtNext(n, x, y) == IF BigCmp(y, x) < 0 THEN BigSqrtLoop(n, y) ELSE x

BigSqrtLoop(n, x) == BigSqrtNext(n, x, BigShr(BigAdd(x, BigDivMod(n, x).q), 1))

\* the whole part of the square root of n (Newton's iteration from above)
BigSqrt(n) == IF n = <<>> THEN n ELSE BigSqrtLoop(n, BigShl(<<1>>, (BigBitLen(n) + 1) \div 2))

RECURSIVE BigPow10(_)
BigPow10(p) ==
    IF p = 0 THEN <<1>>
    ELSE IF p % 2 = 1 THEN BigMulSmall(BigPow10(p - 1), 10)
    ELSE BigMul(BigPow10(p \div 2), BigPow10(p \div 2))

(***************************************************************************)
(* A double is not-a-number, an infinity of sign s, or the finite number   *)
(* (-1)^s * m * 2^e, written in one way: m = 0 with e = 0 (the zeros, of   *)
(* either sign), or 2^52 <= m < 2^53 with e >= -1074, or m < 2^52 with     *)
(* e = -1074.  An operation that raises an exception gives the exception,  *)
(* and an operation on an exception gives that exception.                  *)
(***************************************************************************)
NaN == [k |-> "nan", s |-> 0, m |-> <<>>, e |-> 0]

Inf(s) == [k |-> "inf", s |-> s, m |-> <<>>, e |-> 0]

Fin(s, m, e) == [k |-> "fin", s |-> s, m |-> m, e |-> e]

Zero(s) == Fin(s, <<>>, 0)

FloatError(exc) == [k |-> exc, s |-> 0, m |-> <<>>, e |-> 0]

IsFloatError(x) == x.k \in {"ValueError", "OverflowError"}

IsZero(x) == x.k = "fin" /\ x.m = <<>>

\* the double of sign s that is r * 2^exp, for an r of 2^53 or less:
\* 2^53 is carried to the next exponent, beyond the last is an infinity
Carried(s, r, exp) ==
    IF r = <<>> THEN Zero(s)
    ELSE IF BigBitLen(r) > 53 THEN (IF exp + 54 > 1024 THEN Inf(s) ELSE Fin(s, BigShr(r, 1), exp + 1))
    ELSE IF exp + 53 > 1024 THEN Inf(s)
    ELSE Fin(s, r, exp)

\* whether a quotient q that left rest is rounded up: by more than a half,
\* or by a half when something more was left or q is odd
RoundsUp(q, rest, half, sticky) ==
    LET c == BigCmp(rest, half)
    IN c > 0 \/ (c = 0 /\ (sticky \/ Limb(q, 1) % 2 = 1))

\* the quotient q of m by 2^shift, rounded
RoundShifted(m, shift, sticky, q) ==
    IF RoundsUp(q, BigSub(m, BigShl(q, shift)), BigShl(<<1>>, shift - 1), sticky)
    THEN BigAdd(q, <<1>>)
    ELSE q

\* m * 2^e rounded to a multiple of 2^exp
RoundAt(s, m, e, sticky, exp) ==
    IF exp <= e THEN Carried(s, BigShl(m, e - exp), exp)
    ELSE Carried(s, RoundShifted(m, exp - e, sticky, BigShr(m, exp - e)), exp)

\* (m + f) * 2^e of sign s, for 0 <= f < 1 with f > 0 exactly if sticky,
\* rounded to the nearest double, a tie to the even one
RoundToDouble(s, m, e, sticky) ==
    IF m = <<>> THEN Zero(s) ELSE RoundAt(s, m, e, sticky, Max(e + BigBitLen(m) - 53, -1074))

\* the quotient d.q and what is left of it, at 2^e, rounded
DivRounded(s, d, e) == RoundToDouble(s, d.q, e, d.r # <<>>)

\* float(k) of an int k
float(k) == RoundToDouble(IF k < 0 THEN 1 ELSE 0, Big(IF k < 0 THEN 0 - k ELSE k), 0, FALSE)

\* the float literal n e p: n * 10^p, for an int n >= 0
Literal(n, p) ==
    IF p >= 0 THEN RoundToDouble(0, BigMul(Big(n), BigPow10(p)), 0, FALSE)
    ELSE DivRounded(0, BigDivMod(BigShl(Big(n), 70 - 4 * p), BigPow10(0 - p)), 4 * p - 70)

\* -x
FloatNeg(x) == IF x.k \in {"fin", "inf"} THEN [x EXCEPT !.s = 1 - x.s] ELSE x

\* -1, 0 or 1 as abs(x) is less than, equal to or greater than abs(y), for
\* finite x and y
CmpMag(x, y) ==
    IF x.m = <<>> \/ y.m = <<>> THEN (IF x.m # <<>> THEN 1 ELSE IF y.m # <<>> THEN -1 ELSE 0)
    ELSE IF x.e # y.e THEN (IF x.e > y.e THEN 1 ELSE -1)
    ELSE BigCmp(x.m, y.m)

\* x < y, x > y and x <= y
FloatLt(x, y) ==
    IF x.k \notin {"fin", "inf"} \/ y.k \notin {"fin", "inf"} THEN FALSE
    ELSE IF x.k = "inf" THEN x.s = 1 /\ ~(y.k = "inf" /\ y.s = 1)
    ELSE IF y.k = "inf" THEN y.s = 0
    ELSE IF IsZero(x) /\ IsZero(y) THEN FALSE
    ELSE IF x.s # y.s THEN x.s = 1
    ELSE IF x.s = 0 THEN CmpMag(x, y) < 0
    ELSE CmpMag(x, y) > 0

FloatGt(x, y) == FloatLt(y, x)

FloatLe(x, y) == x.k \in {"fin", "inf"} /\ y.k \in {"fin", "inf"} /\ ~FloatLt(y, x)

\* the sum of finite x and y that are not zero, abs(x) >= abs(y): exact and
\* then rounded; a y far below the last place of x only decides a tie
AddOrdered(x, y) ==
    LET far == x.e - y.e > 60
        wide == BigShl(x.m, IF far THEN 2 ELSE x.e - y.e)
        low == IF far THEN <<1>> ELSE y.m
    IN IF ~far /\ x.s # y.s /\ wide = low THEN Zero(0)
       ELSE RoundToDouble(x.s, IF x.s = y.s /\ far THEN wide
                               ELSE IF x.s = y.s THEN BigAdd(wide, low)
                               ELSE BigSub(wide, low),
                          IF far THEN x.e - 2 ELSE y.e, far)

\* x + y
FloatAdd(x, y) ==
    IF IsFloatError(x) THEN x
    ELSE IF IsFloatError(y) THEN y
    ELSE IF x.k = "nan" \/ y.k = "nan" THEN NaN
    ELSE IF x.k = "inf" THEN (IF y.k = "inf" /\ y.s # x.s THEN NaN ELSE x)
    ELSE IF y.k = "inf" THEN y
    ELSE IF IsZero(x) /\ IsZero(y) THEN Zero(IF x.s = 1 /\ y.s = 1 THEN 1 ELSE 0)
    ELSE IF IsZero(x) THEN y
    ELSE IF IsZero(y) THEN x
    ELSE AddOrdered(IF CmpMag(x, y) < 0 THEN y ELSE x, IF CmpMag(x, y) < 0 THEN x ELSE y)

\* x - y
FloatSub(x, y) == FloatAdd(x, FloatNeg(y))

\* x * y
FloatMul(x, y) ==
    IF IsFloatError(x) THEN x
    ELSE IF IsFloatError(y) THEN y
    ELSE IF x.k = "nan" \/ y.k = "nan" THEN NaN
    ELSE IF x.k = "inf" \/ y.k = "inf"
    THEN (IF IsZero(x) \/ IsZero(y) THEN NaN ELSE Inf((x.s + y.s) % 2))
    ELSE IF IsZero(x) \/ IsZero(y) THEN Zero((x.s + y.s) % 2)
    ELSE RoundToDouble((x.s + y.s) % 2, BigMul(x.m, y.m), x.e + y.e, FALSE)

\* x / y of C doubles, which the constants of the math module are made with
FloatDiv(x, y) ==
    IF IsFloatError(x) THEN x
    ELSE IF IsFloatError(y) THEN y
    ELSE IF x.k = "nan" \/ y.k = "nan" THEN NaN
    ELSE IF x.k = "inf" THEN (IF y.k = "inf" THEN NaN ELSE Inf((x.s + y.s) % 2))
    ELSE IF y.k = "inf" THEN Zero((x.s + y.s) % 2)
    ELSE IF IsZero(y) THEN (IF IsZero(x) THEN NaN ELSE Inf((x.s + y.s) % 2))
    ELSE IF IsZero(x) THEN Zero((x.s + y.s) % 2)
    ELSE DivRounded((x.s + y.s) % 2, BigDivMod(BigShl(x.m, 120), y.m), x.e - y.e - 120)

\* the square root r of n, which is whole or not, at 2^e, rounded
RootRounded(n, r, e) == RoundToDouble(0, r, e, BigMul(r, r) # n)

SqrtRounded(n, e) == RootRounded(n, BigSqrt(n), e)

\* math.sqrt(x)
sqrt(x) ==
    IF x.k # "fin" THEN (IF x.k = "inf" /\ x.s = 1 THEN FloatError("ValueError") ELSE x)
    ELSE IF IsZero(x) THEN x
    ELSE IF x.s = 1 THEN FloatError("ValueError")
    ELSE LET bits == 110 - BigBitLen(x.m)
             k == IF (x.e + 1074 + bits) % 2 = 0 THEN bits ELSE bits + 1
         IN SqrtRounded(BigShl(x.m, k), (x.e - k) \div 2)

RECURSIVE Pow2Mod360(_)
Pow2Mod360(e) ==
    IF e = 0 THEN 1
    ELSE IF e % 2 = 0 THEN (Pow2Mod360(e \div 2) ^ 2) % 360
    ELSE (2 * Pow2Mod360(e - 1)) % 360

\* math.fmod(x, 360.0) of a finite x that is not zero: the remainder with
\* the sign of x, which is exact
Fmod360(x) ==
    IF x.e >= 0
    THEN RoundToDouble(x.s, Big((BigModSmall(x.m, 360) * Pow2Mod360(x.e)) % 360), 0, FALSE)
    ELSE LET k == 0 - x.e
             whole == BigShr(x.m, k)
             frac == BigSub(x.m, BigShl(whole, k))
         IN RoundToDouble(x.s, BigAdd(BigShl(Big(BigModSmall(whole, 360)), k), frac), x.e, FALSE)

PyModOf(rem) ==
    IF IsZero(rem) THEN Zero(0)
    ELSE IF rem.s = 1 THEN FloatAdd(rem, float(360))
    ELSE rem

\* x % 360 of Python floats: fmod, and then, when the remainder is
\* negative, remainder + 360, which rounds; a zero remainder is 0.0
PyMod360(x) ==
    IF IsFloatError(x) THEN x
    ELSE IF x.k # "fin" THEN NaN
    ELSE PyModOf(Fmod360(x))

(***************************************************************************)
(* The functions of the math module, and ** of floats, call the C library: *)
(* glibc 2.36 for x86-64, in its variant for processors with fused         *)
(* multiply-add.  Its sin, cos, atan2 and pow are within a unit in the     *)
(* last place of the result and not always the nearest double, so they are *)
(* computed here as the library computes them, operation by operation,     *)
(* with its constants and tables, which are written as the 64-bit patterns *)
(* of the doubles: five limbs each, the least significant first.           *)
(*                                                                         *)
(* The arithmetic of the library, its tables and its four functions are    *)
(* the cases of one operator, libm, and the code of the library reaches    *)
(* them through it: fma for libm("fma", ...), and so on.                   *)
(***************************************************************************)
\* the double of sign s, exponent field ex and fraction frac
DoubleOf(s, ex, frac) ==
    IF ex = 2047 THEN (IF frac = <<>> THEN Inf(s) ELSE NaN)
    ELSE IF ex = 0 THEN (IF frac = <<>> THEN Zero(s) ELSE Fin(s, frac, 0 - 1074))
    ELSE Fin(s, <<Limb(frac, 1), Limb(frac, 2), Limb(frac, 3), Limb(frac, 4) + 128>>, ex - 1075)

\* the sign and the exponent field of a pattern: its 12 bits from bit 52
PatternTop(b) == Limb(b, 4) \div 128 + 256 * (Limb(b, 5) % 16)

\* the double of a 64-bit pattern
DoubleOfPattern(b) ==
    DoubleOf(PatternTop(b) \div 2048, PatternTop(b) % 2048,
             BigTrim(<<Limb(b, 1), Limb(b, 2), Limb(b, 3), Limb(b, 4) % 128>>))

\* math.pi, and 0.5, 0.25 and 0.75 times it
PI == DoubleOfPattern(<<11544, 10376, 2029, 73, 4>>)

HALF_PI == DoubleOfPattern(<<11544, 10376, 2029, 32713, 3>>)

QUARTER_PI == DoubleOfPattern(<<11544, 10376, 2029, 32585, 3>>)

THREE_QUARTER_PI == DoubleOfPattern(<<8658, 32358, 26097, 22, 4>>)

\* the exponent field of a finite double
ExpField(x) == IF BigBitLen(x.m) = 53 THEN x.e + 1075 ELSE 0

\* the 64-bit pattern of a finite double
asuint64(x) ==
    BigTrim(<<Limb(x.m, 1), Limb(x.m, 2), Limb(x.m, 3),
              (Limb(x.m, 4) % 128) + 128 * (ExpField(x) % 256),
              (ExpField(x) \div 256) + 8 * x.s>>)

\* the low 30 bits of the pattern of a finite double
LowBits(x) == Limb(x.m, 1) + BASE * Limb(x.m, 2)

\* a - b of 64-bit patterns, modulo 2^64
PatternSub(a, b) ==
    IF BigCmp(a, b) >= 0 THEN BigSub(a, b) ELSE BigSub(BigAdd(a, BigShl(<<1>>, 64)), b)

\* the low 64 bits of a pattern
PatternLow(a) == BigTrim(<<Limb(a, 1), Limb(a, 2), Limb(a, 3), Limb(a, 4), Limb(a, 5) % 16>>)

\* fabs(x) and copysign(x, y) of doubles that are not nan
FloatAbs(x) == [x EXCEPT !.s = 0]

CopySign(x, y) == [x EXCEPT !.s = y.s]

\* The sums below are exact: <<s, m, e, sticky>> is (m + f) * 2^e of sign s,
\* with an f as that of RoundToDouble.
\* a * 2^e of sign s1 and b * 2^e of sign s2
SumAligned(s1, a, s2, b, e) ==
    IF s1 = s2 THEN <<s1, BigAdd(a, b), e, FALSE>>
    ELSE IF BigCmp(a, b) = 0 THEN <<0, <<>>, e, FALSE>>
    ELSE IF BigCmp(a, b) > 0 THEN <<s1, BigSub(a, b), e, FALSE>>
    ELSE <<s2, BigSub(b, a), e, FALSE>>

\* m * 2^e of sign s1, and a number of sign s2 that is not zero and far
\* below its last place
SumFar(s1, m, e, s2) ==
    <<s1, IF s1 = s2 THEN BigShl(m, 2) ELSE BigSub(BigShl(m, 2), <<1>>), e - 2, TRUE>>

\* m1 * 2^e1 of sign s1 and m2 * 2^e2 of sign s2, neither zero and each of
\* 53 bits or more where it is far above the other
SumOf(s1, m1, e1, s2, m2, e2) ==
    IF (e1 + BigBitLen(m1)) - (e2 + BigBitLen(m2)) > 120 THEN SumFar(s1, m1, e1, s2)
    ELSE IF (e2 + BigBitLen(m2)) - (e1 + BigBitLen(m1)) > 120 THEN SumFar(s2, m2, e2, s1)
    ELSE SumAligned(s1, BigShl(m1, e1 - Min(e1, e2)), s2, BigShl(m2, e2 - Min(e1, e2)), Min(e1, e2))

SumRounded(t) == RoundToDouble(t[1], t[2], t[3], t[4])

\* fma(a, b, c): a * b + c, rounded once
Fma(a, b, c) ==
    IF IsFloatError(a) THEN a
    ELSE IF IsFloatError(b) THEN b
    ELSE IF IsFloatError(c) THEN c
    ELSE IF a.k = "nan" \/ b.k = "nan" \/ c.k = "nan" THEN NaN
    ELSE IF a.k = "inf" \/ b.k = "inf"
    THEN (IF IsZero(a) \/ IsZero(b) \/ (c.k = "inf" /\ c.s # (a.s + b.s) % 2) THEN NaN
          ELSE Inf((a.s + b.s) % 2))
    ELSE IF c.k = "inf" THEN c
    ELSE IF IsZero(a) \/ IsZero(b)
    THEN (IF IsZero(c) THEN Zero(IF c.s = 1 /\ (a.s + b.s) % 2 = 1 THEN 1 ELSE 0) ELSE c)
    ELSE SumRounded(IF IsZero(c) THEN <<(a.s + b.s) % 2, BigMul(a.m, b.m), a.e + b.e, FALSE>>
                    ELSE SumOf((a.s + b.s) % 2, BigMul(a.m, b.m), a.e + b.e, c.s, c.m, c.e))

RECURSIVE libm(_, _, _, _)
\* the operations on doubles in the code of the library; fms and fnma are
\* a * b - c and c - a * b, rounded once
fma(a, b, c) == libm("fma", a, b, c)

fms(a, b, c) == libm("fma", a, b, FloatNeg(c))

fnma(a, b, c) == libm("fma", FloatNeg(a), b, c)

fadd(a, b) == libm("add", a, b, b)

fsub(a, b) == libm("add", a, FloatNeg(b), b)

fmul(a, b) == libm("mul", a, b, b)

fdiv(a, b) == libm("div", a, b, b)

\* a < b, a > b and a <= b
flt(a, b) == libm("lt", a, b, b)

fgt(a, b) == libm("lt", b, a, a)

fle(a, b) == libm("le", a, b, b)

\* the double of a 64-bit pattern
asdouble(b) == libm("asdouble", b, b, b)

\* 1.0, -1.0 and 2.0
D_ONE == asdouble(<<0, 0, 0, 32640, 3>>)

D_MINUS_ONE == asdouble(<<0, 0, 0, 32640, 11>>)

D_TWO == asdouble(<<0, 0, 0, 0, 4>>)

(***************************************************************************)
(* sin and cos (s_sin.c).  Below 2^-26 the sine is x and below 2^-27 the   *)
(* cosine 1; below 0.126 a polynomial; to 0.855469 and, through            *)
(* pi / 2 - abs(x), to 2.426265 a table of sines and cosines at every      *)
(* 128th with a polynomial of what is left; to 105414350 the same after    *)
(* the multiple of pi / 2 is taken off in four parts, and from there after *)
(* __branred has taken it off.                                             *)
(***************************************************************************)
SIN_TINY == asdouble(<<0, 0, 0, 29312, 3>>)

COS_TINY == asdouble(<<0, 0, 0, 29184, 3>>)

SIN_TABLE_END == asdouble(<<0, 0, 0, 32603, 3>>)

SIN_HALFPI_END == asdouble(<<0, 0, 9204, 27, 4>>)

SIN_REDUCE_END == asdouble(<<0, 0, 2028, 3273, 4>>)

TAYLOR_END == asdouble(<<25428, 14155, 786, 32257, 3>>)

SIN_BIG == asdouble(<<0, 0, 0, 5696, 4>>)

SN3 == asdouble(<<21781, 10922, 21845, 32298, 11>>)

SN5 == asdouble(<<1839, 20563, 17475, 31752, 3>>)

CS2 == asdouble(<<0, 0, 0, 32512, 3>>)

CS4 == asdouble(<<21813, 10922, 21845, 32042, 11>>)

CS6 == asdouble(<<25145, 23475, 1455, 31414, 3>>)

TAYLOR_S1 == asdouble(<<21845, 10922, 21845, 32298, 11>>)

TAYLOR_S2 == asdouble(<<3790, 8738, 17476, 31752, 3>>)

TAYLOR_S3 == asdouble(<<2232, 13238, 1664, 31056, 11>>)

TAYLOR_S4 == asdouble(<<32473, 30516, 30601, 30264, 3>>)

TAYLOR_S5 == asdouble(<<24409, 1529, 30719, 29398, 11>>)

TOINT == asdouble(<<0, 0, 0, 6592, 4>>)

HPINV == asdouble(<<18563, 23443, 31937, 32546, 3>>)

MP1 == asdouble(<<0, 12288, 2029, 32713, 3>>)

MP2 == asdouble(<<0, 30720, 31324, 29294, 11>>)

PP3 == asdouble(<<0, 12288, 20174, 25701, 11>>)

PP4 == asdouble(<<11991, 18374, 20988, 22123, 11>>)

HP0 == asdouble(<<11544, 10376, 2029, 32713, 3>>)

HP1 == asdouble(<<23559, 26152, 6296, 25741, 3>>)

\* sin(k / 128) in two parts and cos(k / 128) in two parts, for k = 0 .. 109
SINCOSTAB ==
    << <<0, 0, 0, 0, 0>>, <<0, 0, 0, 0, 0>>, <<0, 0, 0, 32640, 3>>, <<0, 0, 0, 0, 0>>,
       <<28399, 21853, 32682, 31743, 3>>, <<14204, 22735, 6027, 24818, 11>>, <<21842, 42, 32512, 32639, 3>>, <<28078, 16434, 10246, 25722, 3>>,
       <<28373, 21981, 32426, 31871, 3>>, <<1911, 13630, 11662, 24597, 11>>, <<21663, 682, 31744, 32639, 3>>, <<24307, 16500, 10402, 25620, 3>>,
       <<12885, 518, 32192, 31935, 3>>, <<29494, 8868, 30893, 24567, 3>>, <<30694, 3455, 30464, 32639, 3>>, <<30653, 20690, 7019, 25687, 3>>,
       <<26735, 24029, 31402, 31999, 3>>, <<19170, 30276, 20507, 25062, 11>>, <<10195, 10922, 28672, 32639, 3>>, <<7003, 9649, 21778, 25629, 11>>,
       <<17877, 25178, 31434, 32031, 3>>, <<7185, 16506, 12624, 24999, 3>>, <<10170, 26665, 26368, 32639, 3>>, <<22975, 31960, 18386, 25420, 3>>,
       <<31657, 8293, 30464, 32063, 3>>, <<6522, 26845, 26359, 25132, 11>>, <<31135, 22523, 23553, 32639, 3>>, <<3423, 16585, 20181, 25541, 11>>,
       <<28076, 28848, 29109, 32095, 3>>, <<29238, 1975, 5108, 24775, 3>>, <<14897, 4128, 20227, 32639, 3>>, <<3686, 31672, 5558, 25508, 3>>,
       <<20187, 24026, 27307, 32127, 3>>, <<19305, 25808, 17844, 25110, 11>>, <<29907, 10899, 16389, 32639, 3>>, <<17007, 30514, 8417, 25625, 3>>,
       <<3055, 31489, 28880, 32143, 3>>, <<15951, 19943, 29899, 25337, 11>>, <<28575, 17745, 12040, 32639, 3>>, <<19575, 27114, 19748, 25276, 3>>,
       <<30043, 9634, 27436, 32159, 3>>, <<18060, 9522, 1605, 25289, 11>>, <<28527, 595, 7181, 32639, 3>>, <<28567, 28562, 32012, 25445, 11>>,
       <<14135, 31265, 25671, 32175, 3>>, <<4354, 1405, 24892, 25216, 11>>, <<29675, 1936, 1811, 32639, 3>>, <<18946, 2808, 10020, 25005, 11>>,
       <<20708, 1610, 23556, 32191, 3>>, <<20506, 12288, 28852, 25047, 3>>, <<27547, 32508, 28698, 32638, 3>>, <<30939, 27243, 25610, 25624, 3>>,
       <<20985, 23211, 21056, 32207, 3>>, <<7617, 32088, 9653, 25235, 3>>, <<24576, 5767, 22309, 32638, 3>>, <<4857, 5791, 7587, 25367, 11>>,
       <<14621, 2768, 18142, 32223, 3>>, <<19656, 15316, 17936, 25332, 3>>, <<6577, 29, 15410, 32638, 3>>, <<1708, 3491, 3934, 25461, 3>>,
       <<19686, 11651, 14780, 32239, 3>>, <<5747, 24430, 15928, 25128, 11>>, <<15496, 29091, 8001, 32638, 3>>, <<13957, 2299, 22345, 25603, 3>>,
       <<28214, 23821, 10939, 32255, 3>>, <<28731, 31117, 29386, 25175, 11>>, <<23507, 9466, 85, 32638, 3>>, <<28600, 8489, 9165, 25691, 3>>,
       <<29137, 7098, 19678, 32263, 3>>, <<3998, 25758, 4513, 25452, 3>>, <<1685, 22524, 24428, 32637, 3>>, <<23217, 27116, 30391, 25616, 3>>,
       <<20143, 12127, 17231, 32271, 3>>, <<27045, 4910, 15956, 25399, 11>>, <<19411, 19576, 15496, 32637, 3>>, <<10089, 9844, 11064, 25257, 11>>,
       <<14479, 15509, 14497, 32279, 3>>, <<24664, 3005, 13372, 25458, 11>>, <<14066, 18488, 6057, 32637, 3>>, <<19580, 23087, 13979, 25090, 3>>,
       <<26315, 22714, 11460, 32287, 3>>, <<19345, 22221, 30105, 25379, 3>>, <<17448, 5369, 28880, 32636, 3>>, <<29794, 3190, 28076, 25698, 3>>,
       <<29307, 7051, 8105, 32295, 3>>, <<29436, 21888, 10092, 25290, 3>>, <<19713, 110, 18429, 32636, 3>>, <<7756, 6773, 16637, 25406, 11>>,
       <<9971, 8002, 4415, 32303, 3>>, <<2486, 3199, 20748, 25399, 11>>, <<27894, 23613, 7472, 32636, 3>>, <<11030, 16998, 5203, 25699, 11>>,
       <<19788, 180, 375, 32311, 3>>, <<18752, 5891, 12658, 24217, 11>>, <<24100, 32255, 28779, 32635, 3>>, <<16561, 2282, 21871, 25543, 11>>,
       <<29365, 24437, 28736, 32318, 3>>, <<6083, 17529, 11587, 25133, 3>>, <<19996, 16189, 16815, 32635, 3>>, <<23732, 6253, 25376, 25652, 11>>,
       <<10564, 24053, 23948, 32326, 3>>, <<14675, 17815, 16009, 25360, 11>>, <<10957, 32112, 4347, 32635, 3>>, <<10412, 1020, 16427, 25525, 3>>,
       <<17170, 8605, 18763, 32334, 3>>, <<4989, 354, 4342, 25294, 3>>, <<26519, 6654, 24146, 32634, 3>>, <<12757, 31751, 26676, 25457, 3>>,
       <<1893, 21236, 13164, 32342, 3>>, <<19947, 12205, 8429, 25292, 11>>, <<14969, 31292, 10674, 32634, 3>>, <<15191, 23389, 30659, 25609, 3>>,
       <<24985, 7608, 7137, 32350, 3>>, <<3243, 21750, 1685, 25422, 3>>, <<20846, 1895, 29471, 32633, 3>>, <<13460, 9492, 26859, 25360, 11>>,
       <<2467, 12549, 665, 32358, 3>>, <<31851, 14224, 9026, 25411, 11>>, <<32749, 11943, 14999, 32633, 3>>, <<21891, 16045, 4229, 25702, 3>>,
       <<9680, 16235, 26501, 32365, 3>>, <<28610, 11672, 14467, 25369, 11>>, <<25759, 24844, 28, 32633, 3>>, <<6219, 11651, 20496, 25564, 3>>,
       <<26019, 32533, 19093, 32373, 3>>, <<11499, 24238, 30746, 25349, 11>>, <<1851, 5003, 17328, 32632, 3>>, <<4739, 27736, 16841, 25708, 3>>,
       <<5495, 10726, 11195, 32381, 3>>, <<12984, 8476, 30241, 25354, 11>>, <<28321, 16123, 1362, 32632, 3>>, <<19197, 13259, 28794, 25705, 3>>,
       <<5468, 32458, 17778, 32386, 3>>, <<3784, 15355, 25354, 25549, 11>>, <<12070, 24602, 17668, 32631, 3>>, <<21362, 4541, 10348, 25621, 11>>,
       <<25654, 7654, 13315, 32390, 3>>, <<25269, 6439, 27688, 25551, 11>>, <<28956, 30593, 711, 32631, 3>>, <<17329, 375, 29838, 25183, 11>>,
       <<24043, 21801, 8582, 32394, 3>>, <<5540, 27500, 8710, 25439, 11>>, <<28577, 2475, 16029, 32630, 3>>, <<16848, 5610, 13353, 25259, 11>>,
       <<14454, 18829, 3573, 32398, 3>>, <<20469, 31771, 475, 25507, 3>>, <<28584, 7917, 30853, 32629, 3>>, <<21566, 9588, 15996, 25601, 11>>,
       <<12086, 8757, 31048, 32401, 3>>, <<32536, 26269, 16896, 25511, 11>>, <<12111, 17271, 12417, 32629, 3>>, <<25997, 32040, 1876, 25366, 3>>,
       <<13471, 2173, 25463, 32405, 3>>, <<22535, 13285, 21730, 25354, 3>>, <<19843, 1871, 26259, 32628, 3>>, <<15592, 14218, 6444, 25617, 11>>,
       <<8071, 10249, 19578, 32409, 3>>, <<12332, 26648, 13018, 25584, 3>>, <<10733, 32339, 6842, 32628, 3>>, <<22695, 31606, 26091, 25673, 3>>,
       <<21464, 11987, 13386, 32413, 3>>, <<920, 2319, 30036, 24577, 3>>, <<15680, 16434, 19706, 32627, 3>>, <<19987, 27277, 2604, 25650, 11>>,
       <<26263, 19773, 6879, 32417, 3>>, <<17823, 11787, 10013, 25592, 11>>, <<27088, 26733, 32082, 32626, 3>>, <<18620, 8287, 11327, 25663, 3>>,
       <<15648, 13854, 50, 32421, 3>>, <<3757, 22369, 3817, 25537, 3>>, <<17564, 5716, 11205, 32626, 3>>, <<26675, 23828, 12928, 25652, 11>>,
       <<10106, 7889, 25659, 32424, 3>>, <<28915, 11229, 21957, 25561, 3>>, <<22181, 27905, 22610, 32625, 3>>, <<21047, 21506, 24142, 25491, 11>>,
       <<30103, 16197, 18162, 32428, 3>>, <<24779, 22655, 7470, 25406, 3>>, <<22209, 4953, 765, 32625, 3>>, <<25452, 4062, 699, 25267, 11>>,
       <<1909, 21007, 10320, 32432, 3>>, <<4403, 5969, 32608, 25304, 3>>, <<23502, 13319, 11205, 32624, 3>>, <<6886, 1262, 9116, 25343, 3>>,
       <<22519, 5233, 2126, 32436, 3>>, <<19117, 1160, 8776, 25580, 11>>, <<1886, 32123, 21164, 32623, 3>>, <<14020, 31950, 13865, 25713, 11>>,
       <<597, 18036, 26339, 32439, 3>>, <<23053, 7635, 12037, 25505, 3>>, <<10454, 8676, 30645, 32622, 3>>, <<8895, 10327, 803, 25460, 11>>,
       <<16916, 10988, 17417, 32443, 3>>, <<14030, 25239, 11100, 25399, 11>>, <<22802, 22322, 6879, 32622, 3>>, <<19765, 28379, 19857, 25253, 3>>,
       <<27982, 1936, 8120, 32447, 3>>, <<23282, 13694, 3827, 25563, 11>>, <<3715, 22289, 15405, 32621, 3>>, <<23786, 22204, 4728, 25681, 3>>,
       <<26953, 9476, 31208, 32450, 3>>, <<11488, 14015, 4154, 25541, 3>>, <<10716, 24291, 23456, 32620, 3>>, <<925, 11172, 22639, 25727, 3>>,
       <<6447, 20201, 21138, 32454, 3>>, <<25382, 21740, 10251, 25506, 3>>, <<31562, 12226, 31034, 32619, 3>>, <<28052, 27223, 24000, 25373, 11>>,
       <<18117, 21482, 10671, 32458, 3>>, <<16216, 31952, 29572, 25524, 11>>, <<16448, 3708, 5372, 32619, 3>>, <<27703, 1687, 2265, 25659, 11>>,
       <<1296, 1488, 32568, 32461, 3>>, <<12452, 17985, 30950, 25476, 3>>, <<6624, 17292, 12007, 32618, 3>>, <<3937, 28427, 21229, 25721, 3>>,
       <<3274, 14730, 21284, 32465, 3>>, <<20173, 30369, 17464, 25297, 11>>, <<31750, 6938, 18174, 32617, 3>>, <<19421, 24851, 884, 25587, 3>>,
       <<4727, 18241, 9581, 32469, 3>>, <<897, 25208, 9466, 25393, 11>>, <<5360, 25851, 23873, 32616, 3>>, <<9358, 15747, 21676, 25606, 3>>,
       <<5655, 2660, 30220, 32472, 3>>, <<29977, 5939, 2315, 25559, 11>>, <<11679, 29861, 29107, 32615, 3>>, <<10765, 8478, 22229, 25669, 3>>,
       <<11331, 25015, 17656, 32476, 3>>, <<16369, 24280, 25268, 25585, 11>>, <<741, 8501, 1110, 32615, 3>>, <<4250, 30306, 17638, 25615, 3>>,
       <<16547, 12130, 4652, 32480, 3>>, <<8103, 27389, 32665, 25356, 3>>, <<5934, 17765, 5418, 32614, 3>>, <<15000, 22352, 14424, 25383, 3>>,
       <<20894, 22783, 23967, 32483, 3>>, <<22566, 13434, 17716, 25333, 11>>, <<32011, 16268, 9266, 32613, 3>>, <<13410, 4284, 10757, 25379, 11>>,
       <<9503, 18345, 10059, 32487, 3>>, <<25240, 9653, 29224, 25367, 11>>, <<6788, 29084, 12655, 32612, 3>>, <<291, 17074, 20294, 25557, 3>>,
       <<30305, 26632, 28456, 32490, 3>>, <<17052, 20159, 10514, 25492, 3>>, <<25915, 16663, 15588, 32611, 3>>, <<23362, 30549, 1903, 25658, 11>>,
       <<7322, 10853, 13616, 32494, 3>>, <<32154, 17123, 21275, 25478, 3>>, <<5982, 5910, 18066, 32610, 3>>, <<10368, 30517, 28368, 25357, 11>>,
       <<10857, 688, 31067, 32497, 3>>, <<30863, 8499, 4616, 25221, 11>>, <<23937, 24635, 20090, 32609, 3>>, <<17856, 23813, 11223, 25701, 11>>,
       <<1520, 26774, 15265, 32501, 3>>, <<637, 31030, 9936, 25276, 11>>, <<32080, 3254, 21664, 32608, 3>>, <<26664, 9765, 18500, 25668, 11>>,
       <<31099, 22409, 31741, 32504, 3>>, <<21084, 29006, 18507, 25483, 3>>, <<30006, 4156, 22788, 32607, 3>>, <<10657, 11345, 28508, 25691, 3>>,
       <<15511, 20181, 14951, 32508, 3>>, <<163, 24154, 25922, 25294, 3>>, <<5365, 25093, 23464, 32606, 3>>, <<4253, 4376, 28403, 25496, 3>>,
       <<30074, 20901, 30424, 32511, 3>>, <<23402, 23840, 10852, 25466, 3>>, <<3890, 31942, 23695, 32605, 3>>, <<2617, 2650, 12105, 25529, 3>>,
       <<6485, 29581, 22692, 32513, 3>>, <<31489, 28786, 25397, 25622, 11>>, <<1038, 24241, 23483, 32604, 3>>, <<11744, 3871, 26867, 25250, 3>>,
       <<28251, 3368, 13530, 32515, 3>>, <<32539, 2673, 22201, 25631, 3>>, <<1218, 2414, 22830, 32603, 3>>, <<14491, 1078, 24867, 25722, 11>>,
       <<4097, 15676, 4104, 32517, 3>>, <<5366, 17010, 22798, 25655, 11>>, <<4174, 536, 21737, 32602, 3>>, <<31254, 3588, 32229, 25287, 3>>,
       <<26414, 19818, 27180, 32518, 3>>, <<26889, 24957, 25467, 25682, 11>>, <<2376, 20793, 20206, 32601, 3>>, <<27817, 14910, 6804, 25717, 3>>,
       <<7227, 2413, 17219, 32520, 3>>, <<6529, 12545, 17958, 25708, 3>>, <<9414, 709, 18241, 32600, 3>>, <<16578, 15863, 30040, 25486, 3>>,
       <<32642, 16150, 6984, 32522, 3>>, <<14760, 15438, 25933, 25567, 3>>, <<21109, 9751, 15842, 32599, 3>>, <<28564, 29416, 3465, 25596, 11>>,
       <<28080, 15965, 29241, 32523, 3>>, <<9352, 8284, 31068, 25370, 3>>, <<7653, 19949, 13012, 32598, 3>>, <<14028, 7085, 28074, 25671, 3>>,
       <<12253, 22880, 18450, 32525, 3>>, <<13823, 24983, 25649, 25336, 11>>, <<2323, 4193, 9754, 32597, 3>>, <<20592, 3994, 3928, 24668, 11>>,
       <<22348, 25708, 7376, 32527, 3>>, <<7514, 18920, 10494, 25489, 3>>, <<24621, 1767, 6069, 32596, 3>>, <<18322, 28861, 30744, 25421, 3>>,
       <<5327, 13831, 28784, 32528, 3>>, <<10801, 5703, 27849, 25330, 3>>, <<1711, 20043, 1959, 32595, 3>>, <<17727, 17914, 3267, 25644, 3>>,
       <<3003, 9969, 17134, 32530, 3>>, <<15566, 18607, 3904, 25589, 3>>, <<15823, 1701, 30196, 32593, 3>>, <<5737, 22851, 14059, 25652, 11>>,
       <<8295, 4655, 5191, 32532, 3>>, <<27504, 13122, 30663, 25600, 11>>, <<25669, 21341, 25244, 32592, 3>>, <<856, 26328, 30869, 25034, 3>>,
       <<16926, 21776, 25719, 32533, 3>>, <<27312, 13890, 3527, 25725, 11>>, <<12165, 23330, 19875, 32591, 3>>, <<5638, 2802, 18435, 25614, 11>>,
       <<12418, 20276, 13180, 32535, 3>>, <<25470, 16847, 21855, 25705, 3>>, <<24156, 18404, 14091, 32590, 3>>, <<16226, 9522, 26180, 25631, 3>>,
       <<15439, 25233, 338, 32537, 3>>, <<4955, 4788, 11528, 25723, 3>>, <<25876, 18132, 7894, 32589, 3>>, <<10153, 6463, 2879, 25657, 3>>,
       <<871, 29564, 19958, 32538, 3>>, <<16624, 30176, 18937, 25433, 3>>, <<4880, 2140, 1287, 32588, 3>>, <<28813, 2321, 32736, 25704, 3>>,
       <<10283, 26796, 6501, 32540, 3>>, <<1960, 21110, 16054, 25480, 11>>, <<12797, 16409, 27039, 32586, 3>>, <<1581, 17471, 31734, 25605, 11>>,
       <<1034, 11077, 25500, 32541, 3>>, <<28795, 20389, 22862, 25547, 11>>, <<7826, 9435, 19618, 32585, 3>>, <<3290, 1728, 24000, 25693, 11>>,
       <<21818, 9945, 11415, 32543, 3>>, <<4032, 17070, 5571, 25311, 11>>, <<23287, 28827, 11793, 32584, 3>>, <<15239, 5490, 31428, 25479, 11>>,
       <<26512, 18804, 29779, 32544, 3>>, <<27893, 9487, 575, 25635, 3>>, <<6865, 24699, 3568, 32583, 3>>, <<19448, 27258, 3730, 25379, 11>>,
       <<14443, 926, 15054, 32546, 3>>, <<21765, 15572, 13744, 25631, 11>>, <<18688, 13499, 27713, 32581, 3>>, <<29889, 32040, 3968, 25667, 3>>,
       <<5535, 18530, 3, 32548, 3>>, <<27920, 26823, 25897, 25688, 11>>, <<1823, 12475, 18694, 32580, 3>>, <<28036, 2087, 9063, 25698, 3>>,
       <<14177, 3413, 17393, 32549, 3>>, <<17818, 26393, 26645, 24838, 3>>, <<9926, 6895, 9282, 32579, 3>>, <<27101, 17791, 25599, 25497, 3>>,
       <<21787, 19101, 1683, 32551, 3>>, <<18282, 4975, 9406, 25682, 11>>, <<7328, 15584, 32247, 32577, 3>>, <<18152, 16695, 19261, 25098, 11>>,
       <<13596, 31478, 18407, 32552, 3>>, <<2097, 17289, 929, 25646, 11>>, <<27997, 25378, 22056, 32576, 3>>, <<10462, 5892, 8932, 25455, 11>>,
       <<14116, 7095, 2027, 32554, 3>>, <<21393, 2625, 19210, 25489, 3>>, <<5256, 23892, 11480, 32575, 3>>, <<5535, 18763, 30102, 25296, 3>>,
       <<22963, 11482, 18074, 32555, 3>>, <<12696, 6687, 4333, 25316, 3>>, <<25935, 32275, 521, 32574, 3>>, <<28264, 11861, 20315, 25443, 11>>,
       <<14866, 12546, 1010, 32557, 3>>, <<8827, 28584, 2954, 25708, 11>>, <<25923, 6910, 21951, 32572, 3>>, <<23268, 21416, 18907, 25685, 11>>,
       <<3853, 11647, 16368, 32558, 3>>, <<22410, 25046, 13005, 25675, 3>>, <<8479, 3242, 10235, 32571, 3>>, <<26821, 7960, 8023, 25409, 11>>,
       <<7767, 10837, 31377, 32559, 3>>, <<8375, 28636, 23355, 25605, 3>>, <<31649, 11933, 30912, 32569, 3>>, <<11615, 31529, 20152, 25390, 11>>,
       <<11385, 12867, 13266, 32561, 3>>, <<9242, 11116, 30305, 25718, 11>>, <<30328, 24398, 18449, 32568, 3>>, <<7297, 18949, 5826, 25633, 3>>,
       <<26453, 21191, 27568, 32562, 3>>, <<1340, 22242, 7141, 25609, 3>>, <<30046, 25, 5618, 32567, 3>>, <<20646, 15799, 2587, 25648, 3>>,
       <<19247, 7206, 8745, 32564, 3>>, <<21990, 27785, 24397, 25653, 11>>, <<31581, 30013, 25187, 32565, 3>>, <<29874, 3481, 27422, 25482, 3>>,
       <<538, 8559, 22329, 32565, 3>>, <<11791, 7904, 21590, 25390, 11>>, <<25171, 9686, 11626, 32564, 3>>, <<30876, 13067, 9323, 25677, 11>>,
       <<15841, 30849, 2781, 32567, 3>>, <<11603, 2815, 7334, 25479, 11>>, <<3258, 31703, 30471, 32562, 3>>, <<31863, 3686, 28781, 25291, 11>>,
       <<3136, 14869, 15636, 32568, 3>>, <<30477, 28938, 31608, 25419, 3>>, <<4551, 25603, 16191, 32561, 3>>, <<22255, 4782, 17678, 25452, 3>>,
       <<9592, 445, 28122, 32569, 3>>, <<4770, 3512, 4620, 25489, 11>>, <<25567, 19946, 1556, 32560, 3>>, <<13008, 16840, 12951, 25635, 3>>,
       <<13604, 28143, 7467, 32571, 3>>, <<1192, 10585, 29950, 25588, 3>>, <<29050, 11235, 19337, 32558, 3>>, <<2347, 2449, 17668, 25601, 3>>,
       <<7506, 8200, 19207, 32572, 3>>, <<21739, 23910, 31767, 25685, 11>>, <<16503, 29444, 4000, 32557, 3>>, <<15970, 20147, 8872, 25633, 3>>,
       <<13250, 15441, 30569, 32573, 3>>, <<915, 31130, 17509, 25174, 3>>, <<1010, 6941, 21086, 32555, 3>>, <<11555, 24144, 7250, 25722, 3>>,
       <<31065, 27142, 8783, 32575, 3>>, <<3148, 21706, 15342, 25607, 3>>, <<11429, 7858, 5060, 32554, 3>>, <<9775, 19855, 27555, 25715, 11>>,
       <<19364, 21340, 19383, 32576, 3>>, <<11738, 16000, 3115, 25660, 11>>, <<29658, 31479, 21461, 32552, 3>>, <<16985, 231, 26690, 25507, 3>> >>

\* part j = 1 .. 4 of entry k of the table
SinCosTab(k, j) == libm("SINCOSTAB", k, j, j)

\* TAYLOR_SIN: the sine of x + dx for abs(x) < 0.126, xx = x * x
TaylorPoly(xx) ==
    fma(xx, fma(xx, fma(xx, fma(xx, TAYLOR_S5, TAYLOR_S4), TAYLOR_S3), TAYLOR_S2), TAYLOR_S1)

TaylorSin(x, xx, dx) == fadd(x, fma(xx, fms(TaylorPoly(xx), x, fmul(dx, CS2)), dx))

\* the cosine, less 1, of the little y that is left of a table entry
CosLeft(xx) == fmul(xx, fma(xx, fma(xx, CS6, CS4), CS2))

\* do_sin past the polynomial: abs(x) = k / 128 + y, and dx with the sign
\* turned for x <= 0
do_sin_cor(s, c, k) ==
    fma(s, SinCosTab(k, 3), fnma(c, SinCosTab(k, 1), fma(s, SinCosTab(k, 4), SinCosTab(k, 2))))

do_sin_left(y, xx, dx, k) ==
    fadd(SinCosTab(k, 1),
             do_sin_cor(fadd(y, fma(fmul(y, xx), fma(xx, SN5, SN3), dx)),
                        fma(y, dx, CosLeft(xx)), k))

do_sin_y(y, dx, k) == do_sin_left(y, fmul(y, y), dx, k)

do_sin_u(ax, u, dx) == do_sin_y(fsub(ax, fsub(u, SIN_BIG)), dx, LowBits(u))

\* do_sin(x, dx): the sine of x + dx, abs(x) < 0.855469
do_sin(x, dx) ==
    IF flt(FloatAbs(x), TAYLOR_END) THEN TaylorSin(x, fmul(x, x), dx)
    ELSE CopySign(do_sin_u(FloatAbs(x), fadd(SIN_BIG, FloatAbs(x)),
                           IF fle(x, Zero(0)) THEN FloatNeg(dx) ELSE dx), x)

\* do_cos past the table entry
do_cos_cor(s, c, k) ==
    fnma(s, SinCosTab(k, 1), fnma(c, SinCosTab(k, 3), fnma(s, SinCosTab(k, 2), SinCosTab(k, 4))))

do_cos_left(y, xx, k) ==
    fadd(SinCosTab(k, 3),
             do_cos_cor(fma(fmul(y, xx), fma(xx, SN5, SN3), y), CosLeft(xx), k))

do_cos_y(y, k) == do_cos_left(y, fmul(y, y), k)

do_cos_u(ax, u, dx) == do_cos_y(fadd(fsub(ax, fsub(u, SIN_BIG)), dx), LowBits(u))

\* do_cos(x, dx): the cosine of x + dx, abs(x) < 0.855469
do_cos(x, dx) ==
    do_cos_u(FloatAbs(x), fadd(SIN_BIG, FloatAbs(x)),
             IF flt(x, Zero(0)) THEN FloatNeg(dx) ELSE dx)

\* do_sincos(a, da, n): the sine of a + da + n * pi / 2
Signed(r, n) == IF n >= 2 THEN FloatNeg(r) ELSE r

do_sincos(a, da, n) == Signed(IF n % 2 = 1 THEN do_cos(a, da) ELSE do_sin(a, da), n)

sincos(a, da, n) == libm("do_sincos", a, da, n)

\* reduce_sincos: x = xn * pi / 2 + a + da, the multiple taken off in the
\* parts MP1, MP2, PP3 and PP4 of pi / 2, and then do_sincos with the
\* quadrant n, which is xn and, for the cosine, one more
reduce_da(a, da1, t2, xn, n) == sincos(a, fadd(da1, fnma(xn, PP4, fsub(t2, a))), n)

reduce_t2(y, t2, xn, n) == reduce_da(fnma(xn, PP4, t2), fnma(PP3, xn, fsub(y, t2)), t2, xn, n)

reduce_y(y, xn, n) == reduce_t2(y, fnma(xn, PP3, y), xn, n)

reduce_xn(x, xn, n) == reduce_y(fnma(xn, MP2, fnma(xn, MP1, x)), xn, n)

reduce_t(x, t, more) == reduce_xn(x, fsub(t, TOINT), (LowBits(t) + more) % 4)

reduce_sincos(x, more) == reduce_t(x, fma(x, HPINV, TOINT), more)

\* the cosine between 0.855469 and 2.426265: the sine of pi / 2 - abs(x)
cos_half_da(y, a) == sincos(a, fadd(fsub(y, a), HP1), 0)

cos_half(y) == cos_half_da(y, fadd(y, HP1))

\* __branred (branred.c): x of 105414350 or more is x1 + x2, and each of
\* the two times 2 / pi, which is in TOVERP by 24 bits, from the first
\* digits that do not give a multiple of 4 only: six products, the whole
\* numbers of quarter turns taken off the first three of them
TM600 == asdouble(<<0, 0, 0, 21376, 1>>)

SPLIT == asdouble(<<0, 1024, 0, 3328, 4>>)

BIG1 == asdouble(<<0, 0, 0, 6848, 4>>)

MINUS_HALF == asdouble(<<0, 0, 0, 32512, 11>>)

BR_MP2 == asdouble(<<0, 0, 31325, 29294, 11>>)

TOVERP ==
    << <<0, 16384, 31937, 2850, 4>>, <<0, 0, 20036, 2780, 4>>, <<0, 0, 10224, 2473, 4>>, <<0, 0, 12194, 2589, 4>>, <<0, 16384, 6766, 2933, 4>>,
       <<0, 0, 28081, 2880, 4>>, <<0, 0, 19614, 2837, 4>>, <<0, 0, 4161, 2695, 4>>, <<0, 16384, 10417, 2942, 4>>, <<0, 16384, 28509, 2859, 4>>,
       <<0, 16384, 12507, 2885, 4>>, <<0, 0, 23668, 2577, 4>>, <<0, 0, 19922, 2692, 4>>, <<0, 16384, 804, 2912, 4>>, <<0, 0, 21522, 2619, 4>>,
       <<0, 0, 18702, 2897, 4>>, <<0, 16384, 3829, 2942, 4>>, <<0, 0, 17572, 2533, 4>>, <<0, 0, 8052, 2855, 4>>, <<0, 16384, 6906, 2818, 4>>,
       <<0, 0, 30344, 2618, 4>>, <<0, 0, 29902, 2820, 4>>, <<0, 0, 9908, 2784, 4>>, <<0, 0, 32321, 2750, 4>>, <<0, 0, 9132, 2662, 4>>,
       <<0, 0, 1702, 2662, 4>>, <<0, 0, 26936, 2663, 4>>, <<0, 16384, 12229, 2820, 4>>, <<0, 0, 31892, 2877, 4>>, <<0, 0, 16368, 2668, 4>>,
       <<0, 0, 32751, 2839, 4>>, <<0, 0, 240, 2227, 4>>, <<0, 16384, 6024, 2927, 4>>, <<0, 0, 11525, 2827, 4>>, <<0, 0, 8045, 2778, 4>>,
       <<0, 0, 32158, 2649, 4>>, <<0, 0, 5650, 2591, 4>>, <<0, 0, 10147, 2871, 4>>, <<0, 0, 19772, 2685, 4>>, <<0, 0, 27181, 2751, 4>>,
       <<0, 0, 10170, 2794, 4>>, <<0, 16384, 30194, 2887, 4>>, <<0, 16384, 15774, 2929, 4>>, <<0, 0, 8048, 2279, 4>>, <<0, 0, 10569, 2826, 4>>,
       <<0, 16384, 13821, 2922, 4>>, <<0, 0, 12575, 2751, 4>>, <<0, 0, 11908, 2829, 4>>, <<0, 0, 816, 2732, 4>>, <<0, 0, 31867, 2701, 4>>,
       <<0, 0, 11248, 2775, 4>>, <<0, 0, 24080, 2895, 4>>, <<0, 0, 31259, 2842, 4>>, <<0, 0, 10124, 2541, 4>>, <<0, 0, 12463, 2833, 4>>,
       <<0, 0, 3460, 2918, 4>>, <<0, 0, 6533, 2763, 4>>, <<0, 0, 5280, 2750, 4>>, <<0, 0, 16525, 2768, 4>>, <<0, 0, 27712, 2943, 4>>,
       <<0, 0, 29479, 2714, 4>>, <<0, 0, 3084, 2628, 4>>, <<0, 0, 23336, 2474, 4>>, <<0, 0, 10441, 2791, 4>>, <<0, 0, 25211, 2753, 4>>,
       <<0, 16384, 17973, 2880, 4>>, <<0, 0, 17433, 2703, 4>>, <<0, 16384, 13286, 2883, 4>>, <<0, 16384, 29700, 2908, 4>>, <<0, 0, 1714, 2602, 4>>,
       <<0, 16384, 15173, 2884, 4>>, <<0, 0, 3667, 2838, 4>>, <<0, 0, 22434, 2909, 4>>, <<0, 16384, 11148, 2897, 4>>, <<0, 0, 27216, 2215, 4>> >>

Toverp(i) == libm("TOVERP", i, i, i)

\* 2^(576 - 24 * i), which stands against digit i of TOVERP
Gor(i) == DoubleOf(0, 1599 - 24 * i, <<>>)

\* a small whole number that is a double
WholeOf(x) ==
    IF IsZero(x) THEN 0
    ELSE IF x.s = 1 THEN 0 - Limb(BigShr(x.m, 0 - x.e), 1)
    ELSE Limb(BigShr(x.m, 0 - x.e), 1)

\* one of the two: its products r from digit k, the whole parts w of the
\* first three, and then the sum t of what is left, what the sum left, bb,
\* and the sum of the whole parts; the result is <<b, bb, sum>> with b + bb
\* the fraction and sum the whole number modulo 4
branred_parts(x1, k) == [i \in 1 .. 6 |-> fmul(fmul(Toverp(k + i - 1), x1), Gor(k + i - 1))]

branred_whole(r) == [i \in 1 .. 3 |-> fsub(fadd(r[i], TOINT), TOINT)]

branred_left(r, w) == [i \in 1 .. 6 |-> IF i <= 3 THEN fsub(r[i], w[i]) ELSE r[i]]

branred_sum(w) == fadd(fadd(fadd(Zero(0), w[1]), w[2]), w[3])

branred_t(r) == fadd(r[1], fadd(r[2], fadd(r[3], fadd(r[4], fadd(r[5], fadd(r[6], Zero(0)))))))

branred_bb(r, t) == fadd(fadd(fadd(fadd(fadd(fsub(r[1], t), r[2]), r[3]), r[4]), r[5]), r[6])

branred_b(t, bb, sum) ==
    <<fadd(bb, t), fadd(fsub(t, fadd(bb, t)), bb), fsub(sum, fsub(fadd(sum, BIG1), BIG1))>>

branred_s(r, t, s, sum) == branred_b(fsub(t, s), branred_bb(r, t), fadd(sum, s))

branred_rt(r, t, sum) == branred_s(r, t, fsub(fadd(t, TOINT), TOINT), sum)

branred_rw(r, sum) == branred_rt(r, branred_t(r), sum)

branred_w(r, w) == branred_rw(branred_left(r, w), branred_sum(w))

branred_r(r) == branred_w(r, branred_whole(r))

branred_half(x1) == branred_r(branred_parts(x1, Max(0, (ExpField(x1) - 450) \div 24)))

\* the two together: s + t the fraction of a quarter turn, between -0.5
\* and 0.5, and then times pi / 2, which is MP1 + BR_MP2 + HP1 and nearly
\* HP0, with s in the halves t1 and t2; and do_sincos with the quadrant,
\* which is for the cosine one more
branred_out(b, bb, n) == sincos(fadd(b, bb), fadd(fsub(b, fadd(b, bb)), bb), n)

branred_t2(s, t, t1, t2, b, n) ==
    branred_out(b, fadd(fadd(fadd(fsub(fmul(t1, MP1), b), fmul(t1, BR_MP2)), fmul(t2, MP1)),
                        fadd(fmul(t, HP0), fadd(fmul(t2, BR_MP2), fmul(s, HP1)))), n)

branred_t1(s, t, t1, n) == branred_t2(s, t, t1, fsub(s, t1), fmul(s, HP0), n)

branred_st(s, t, n) == branred_t1(s, t, fsub(fmul(s, SPLIT), fsub(fmul(s, SPLIT), s)), n)

branred_bs(b, bb, bbs, bb12, n) ==
    branred_st(fadd(b, bbs), fadd(fadd(fsub(b, fadd(b, bbs)), bb), bb12), n)

branred_adj(bs, bb, bb1, bb2, more) ==
    branred_bs(bs[1], bb, fadd(fadd(bb, bb1), bb2), fadd(bb1, bb2), (WholeOf(bs[2]) + more + 8) % 4)

branred_b12(h1, h2, b, sum, more) ==
    branred_adj(IF fgt(b, CS2) THEN <<fsub(b, D_ONE), fadd(sum, D_ONE)>>
                ELSE IF flt(b, MINUS_HALF) THEN <<fadd(b, D_ONE), fsub(sum, D_ONE)>>
                ELSE <<b, sum>>,
                IF fgt(FloatAbs(h1[1]), FloatAbs(h2[1])) THEN fadd(fsub(h1[1], b), h2[1])
                ELSE fadd(fsub(h2[1], b), h1[1]),
                h1[2], h2[2], more)

branred_halves(h1, h2, more) == branred_b12(h1, h2, fadd(h1[1], h2[1]), fadd(h2[3], h1[3]), more)

branred_x1(x, x1, more) == branred_halves(branred_half(x1), branred_half(fsub(x, x1)), more)

branred_x(x, more) == branred_x1(x, fsub(fmul(x, SPLIT), fsub(fmul(x, SPLIT), x)), more)

__branred(x, more) == branred_x(fmul(x, TM600), more)

\* sin(x) and cos(x) of a finite x
__sin(x) ==
    IF flt(FloatAbs(x), SIN_TINY) THEN x
    ELSE IF flt(FloatAbs(x), SIN_TABLE_END) THEN sincos(x, Zero(0), 0)
    ELSE IF flt(FloatAbs(x), SIN_HALFPI_END)
    THEN CopySign(sincos(fsub(HP0, FloatAbs(x)), HP1, 1), x)
    ELSE IF flt(FloatAbs(x), SIN_REDUCE_END) THEN reduce_sincos(x, 0)
    ELSE __branred(x, 0)

__cos(x) ==
    IF flt(FloatAbs(x), COS_TINY) THEN D_ONE
    ELSE IF flt(FloatAbs(x), SIN_TABLE_END) THEN sincos(x, Zero(0), 1)
    ELSE IF flt(FloatAbs(x), SIN_HALFPI_END) THEN cos_half(fsub(HP0, FloatAbs(x)))
    ELSE IF flt(FloatAbs(x), SIN_REDUCE_END) THEN reduce_sincos(x, 1)
    ELSE __branred(x, 1)

(***************************************************************************)
(* atan2 (e_atan2.c).  With u the quotient of the smaller by the greater   *)
(* of abs(y) and abs(x), and du what the division left: the arc tangent of *)
(* u + du, by a polynomial below 1 / 16 and from there by a table at every *)
(* 256th with a polynomial each, and then as x > 0 or x < 0 and as         *)
(* abs(y) < abs(x) or not: itself, pi / 2 less it, pi / 2 and it, pi less  *)
(* it; with the sign of y.                                                 *)
(***************************************************************************)
HPI == asdouble(<<11544, 10376, 2029, 32713, 3>>)

HPI1 == asdouble(<<23559, 26152, 6296, 25741, 3>>)

OPI == asdouble(<<11544, 10376, 2029, 73, 4>>)

OPI1 == asdouble(<<23559, 26152, 6296, 25869, 3>>)

TWOM500 == asdouble(<<0, 0, 0, 1408, 2>>)

TWO500 == asdouble(<<0, 0, 0, 31104, 5>>)

INV16 == asdouble(<<0, 0, 0, 32128, 3>>)

TWO52 == asdouble(<<0, 0, 0, 6528, 4>>)

TWO8 == asdouble(<<0, 0, 0, 896, 4>>)

ATAN_D3 == asdouble(<<21845, 10922, 21845, 32426, 11>>)

ATAN_D5 == asdouble(<<6141, 13107, 26214, 32332, 3>>)

ATAN_D7 == asdouble(<<30211, 9342, 9362, 32274, 11>>)

ATAN_D9 == asdouble(<<6715, 18981, 18203, 32227, 3>>)

ATAN_D11 == asdouble(<<15397, 17762, 5632, 32186, 11>>)

ATAN_D13 == asdouble(<<19406, 5731, 22466, 32155, 3>>)

\* for i = 0 .. 240 seven doubles: a point near (i + 16) / 256, its arc
\* tangent, and the coefficients of the arc tangent about it
CIJ ==
    << <<9294, 19392, 25, 32130, 3>>, <<23840, 30375, 27085, 32129, 3>>, <<31602, 7865, 31871, 32638, 3>>, <<25794, 7253, 31439, 32128, 11>>,
       <<9229, 15025, 19067, 32422, 11>>, <<8586, 12815, 26923, 32126, 3>>, <<23320, 7148, 21373, 32320, 3>>, <<3288, 29553, 32758, 32135, 3>>,
       <<21248, 18120, 26225, 32135, 3>>, <<21263, 18365, 28706, 32638, 3>>, <<6893, 19768, 26481, 32134, 11>>, <<3554, 28199, 6567, 32422, 11>>,
       <<1447, 21409, 1212, 32133, 3>>, <<3360, 8105, 17339, 32319, 3>>, <<21745, 13543, 32709, 32143, 3>>, <<8256, 22492, 24956, 32143, 3>>,
       <<27953, 1386, 24269, 32638, 3>>, <<27200, 27963, 19166, 32142, 11>>, <<27849, 29253, 21832, 32421, 11>>, <<6660, 9302, 15949, 32140, 3>>,
       <<28769, 11457, 31413, 32317, 3>>, <<19106, 25764, 32758, 32151, 3>>, <<4256, 20015, 23643, 32151, 3>>, <<5796, 10089, 19581, 32638, 3>>,
       <<29556, 5462, 11105, 32150, 11>>, <<12210, 12730, 3373, 32421, 11>>, <<19480, 8605, 28715, 32147, 3>>, <<17367, 14926, 10057, 32316, 3>>,
       <<29612, 2791, 32760, 32159, 3>>, <<30368, 11781, 22132, 32159, 3>>, <<11458, 24803, 14646, 32638, 3>>, <<13958, 18870, 2109, 32158, 11>>,
       <<32403, 22135, 16743, 32420, 11>>, <<20461, 5614, 6503, 32155, 3>>, <<8112, 14338, 18852, 32314, 3>>, <<1238, 4743, 32702, 32167, 3>>,
       <<1216, 6596, 20404, 32167, 3>>, <<23041, 20948, 9466, 32638, 3>>, <<22473, 30376, 24893, 32165, 11>>, <<29433, 26627, 29185, 32419, 11>>,
       <<29193, 27116, 14738, 32162, 3>>, <<2935, 6312, 25077, 32312, 3>>, <<25896, 16000, 32739, 32175, 3>>, <<22560, 30951, 18604, 32175, 3>>,
       <<3859, 25580, 4038, 32638, 3>>, <<10043, 5887, 14027, 32173, 11>>, <<13653, 22077, 7928, 32419, 11>>, <<17507, 13275, 20694, 32169, 3>>,
       <<20569, 18206, 28780, 32310, 3>>, <<3414, 6302, 62, 32184, 3>>, <<12192, 4788, 16685, 32183, 3>>, <<20119, 26651, 31132, 32637, 3>>,
       <<25005, 6961, 2193, 32181, 11>>, <<19953, 10252, 18520, 32418, 11>>, <<2662, 22351, 24232, 32176, 3>>, <<22444, 8519, 30013, 32308, 3>>,
       <<22479, 30336, 62, 32192, 3>>, <<21408, 31833, 14494, 32191, 3>>, <<4678, 29657, 25216, 32637, 3>>, <<18291, 25523, 21980, 32188, 11>>,
       <<32114, 28088, 28214, 32417, 11>>, <<18399, 11562, 25131, 32183, 3>>, <<20108, 27751, 28827, 32306, 3>>, <<11135, 29598, 32712, 32199, 3>>,
       <<7808, 16175, 11998, 32199, 3>>, <<1761, 1706, 19061, 32637, 3>>, <<19893, 21363, 7785, 32196, 11>>, <<12201, 3069, 4258, 32417, 11>>,
       <<6670, 27698, 23274, 32190, 3>>, <<2997, 20375, 25278, 32304, 3>>, <<1906, 23646, 32741, 32207, 3>>, <<5248, 9813, 9451, 32207, 3>>,
       <<27712, 2375, 12660, 32637, 3>>, <<27287, 10221, 25353, 32203, 11>>, <<14070, 4408, 12172, 32416, 11>>, <<27511, 4277, 18802, 32197, 3>>,
       <<23777, 18325, 19421, 32302, 3>>, <<12439, 17965, 9, 32216, 3>>, <<19456, 7241, 6707, 32215, 3>>, <<23654, 10008, 6018, 32637, 3>>,
       <<20043, 28130, 8973, 32211, 11>>, <<19836, 11565, 19212, 32415, 11>>, <<11444, 25684, 11501, 32204, 3>>, <<11618, 8399, 11314, 32300, 3>>,
       <<22705, 16542, 33, 32224, 3>>, <<1920, 2762, 3740, 32223, 3>>, <<10099, 13556, 31905, 32636, 3>>, <<16548, 31413, 24124, 32218, 11>>,
       <<4511, 28366, 25391, 32414, 11>>, <<7048, 4038, 1271, 32211, 3>>, <<17765, 27314, 1015, 32298, 3>>, <<20154, 22932, 9, 32232, 3>>,
       <<2688, 595, 507, 32231, 3>>, <<27722, 20902, 24787, 32636, 3>>, <<17918, 14229, 5197, 32226, 11>>, <<14065, 5796, 30726, 32413, 11>>,
       <<6512, 23858, 20764, 32217, 3>>, <<13171, 29019, 21354, 32295, 3>>, <<32714, 25960, 32722, 32239, 3>>, <<7552, 5130, 29785, 32238, 3>>,
       <<18581, 29113, 17433, 32636, 3>>, <<26692, 24876, 17703, 32233, 11>>, <<6751, 26783, 2457, 32413, 11>>, <<29306, 23407, 4379, 32224, 3>>,
       <<7882, 12415, 6857, 32293, 3>>, <<23520, 21312, 42, 32248, 3>>, <<9536, 18299, 26202, 32246, 3>>, <<10623, 14103, 9840, 32636, 3>>,
       <<9847, 17679, 28996, 32240, 11>>, <<12475, 23426, 6115, 32412, 11>>, <<32592, 26125, 17711, 32230, 3>>, <<10027, 19663, 23122, 32290, 3>>,
       <<25566, 29982, 32746, 32255, 3>>, <<18304, 21500, 22229, 32254, 3>>, <<23677, 4295, 2017, 32636, 3>>, <<1798, 8867, 5999, 32248, 11>>,
       <<9884, 3343, 8977, 32411, 11>>, <<26842, 13936, 27680, 32236, 3>>, <<11772, 1675, 4679, 32288, 3>>, <<11688, 23961, 32745, 32259, 3>>,
       <<25600, 5234, 9024, 32259, 3>>, <<31851, 25593, 26727, 32635, 3>>, <<28895, 3131, 14386, 32255, 11>>, <<27660, 13488, 11033, 32410, 11>>,
       <<25466, 12602, 1596, 32243, 3>>, <<31188, 12974, 17128, 32285, 3>>, <<10003, 26246, 12, 32264, 3>>, <<20896, 25607, 6851, 32263, 3>>,
       <<13411, 31773, 18435, 32635, 3>>, <<12698, 17081, 10699, 32259, 11>>, <<30238, 29110, 12290, 32409, 11>>, <<24126, 16958, 4962, 32249, 3>>,
       <<1501, 11581, 27769, 32282, 3>>, <<18449, 13368, 32755, 32267, 3>>, <<23040, 21463, 4488, 32267, 3>>, <<1847, 31403, 9917, 32635, 3>>,
       <<5787, 5735, 29788, 32262, 11>>, <<20689, 26456, 12788, 32408, 11>>, <<16143, 14280, 4778, 32255, 3>>, <<14795, 21066, 3901, 32280, 3>>,
       <<16781, 31124, 32764, 32271, 3>>, <<3744, 30511, 2024, 32271, 3>>, <<8617, 2984, 1169, 32635, 3>>, <<2728, 22873, 15374, 32266, 11>>,
       <<30115, 17868, 12517, 32407, 11>>, <<13350, 24397, 16944, 32258, 3>>, <<25703, 28692, 11129, 32277, 3>>, <<2338, 13199, 32735, 32275, 3>>,
       <<26176, 14115, 32152, 32274, 3>>, <<6444, 27228, 24963, 32634, 3>>, <<9108, 19388, 143, 32270, 11>>, <<2749, 22492, 11509, 32406, 11>>,
       <<23578, 15374, 13293, 32261, 3>>, <<17722, 16380, 16755, 32274, 3>>, <<6826, 17400, 32734, 32279, 3>>, <<31808, 1610, 29398, 32278, 3>>,
       <<14075, 3635, 15763, 32634, 3>>, <<16515, 17058, 16905, 32273, 11>>, <<29397, 32502, 9761, 32405, 11>>, <<29698, 30992, 7837, 32264, 3>>,
       <<22225, 22649, 20848, 32271, 3>>, <<24926, 15089, 22, 32284, 3>>, <<3808, 21907, 26553, 32282, 3>>, <<27670, 10393, 6334, 32634, 3>>,
       <<1961, 12471, 131, 32277, 11>>, <<13161, 23701, 7280, 32404, 11>>, <<26073, 1588, 567, 32267, 3>>, <<15952, 9751, 23480, 32268, 3>>,
       <<6938, 16006, 18, 32288, 3>>, <<21344, 22444, 23501, 32286, 3>>, <<13962, 15155, 29455, 32633, 3>>, <<237, 26554, 15238, 32280, 11>>,
       <<9828, 28816, 4111, 32403, 11>>, <<26150, 31782, 24139, 32269, 3>>, <<29760, 23896, 24721, 32265, 3>>, <<5537, 16443, 19, 32292, 3>>,
       <<3264, 3552, 20302, 32290, 3>>, <<1337, 18222, 19587, 32633, 3>>, <<31146, 5284, 29500, 32283, 11>>, <<7517, 30250, 252, 32402, 11>>,
       <<18918, 18019, 13039, 32272, 3>>, <<28823, 29639, 24644, 32262, 3>>, <<733, 21799, 32734, 32295, 3>>, <<2688, 6322, 16894, 32294, 3>>,
       <<10464, 27070, 9504, 32633, 3>>, <<4444, 13959, 10081, 32287, 11>>, <<17826, 22288, 28503, 32400, 11>>, <<18605, 22741, 32738, 32274, 3>>,
       <<5834, 4571, 23322, 32259, 3>>, <<2238, 27208, 24, 32300, 3>>, <<29664, 1844, 13435, 32298, 3>>, <<156, 4956, 31964, 32632, 3>>,
       <<1360, 29565, 22642, 32290, 11>>, <<29998, 167, 23296, 32399, 11>>, <<15337, 24304, 17783, 32277, 3>>, <<9115, 3114, 20826, 32256, 3>>,
       <<16257, 22066, 32764, 32303, 3>>, <<24576, 7911, 9729, 32302, 3>>, <<3625, 23586, 21446, 32632, 3>>, <<13266, 8497, 1466, 32294, 11>>,
       <<577, 7691, 17470, 32398, 11>>, <<10391, 17055, 794, 32280, 3>>, <<1984, 10956, 1691, 32251, 3>>, <<26337, 2241, 33, 32308, 3>>,
       <<24096, 2378, 5920, 32306, 3>>, <<28357, 8006, 10710, 32632, 3>>, <<10371, 11359, 12199, 32297, 11>>, <<16456, 21326, 10997, 32397, 11>>,
       <<27394, 11507, 14612, 32282, 3>>, <<19517, 28546, 25211, 32244, 3>>, <<10310, 15667, 32750, 32311, 3>>, <<32064, 5739, 1857, 32310, 3>>,
       <<28565, 32241, 32536, 32631, 3>>, <<32355, 27973, 21933, 32300, 11>>, <<3551, 15247, 3939, 32396, 11>>, <<28006, 22720, 26358, 32284, 3>>,
       <<10346, 3610, 14056, 32238, 3>>, <<21648, 8185, 32, 32316, 3>>, <<22752, 27310, 30486, 32313, 3>>, <<8293, 2812, 21377, 32631, 3>>,
       <<31164, 31455, 30809, 32303, 11>>, <<21380, 16219, 29022, 32394, 11>>, <<11570, 26570, 3357, 32287, 3>>, <<11851, 13515, 1138, 32232, 3>>,
       <<31169, 10524, 24, 32320, 3>>, <<3232, 22271, 26116, 32317, 3>>, <<2029, 24621, 10013, 32631, 3>>, <<29549, 7229, 5916, 32307, 11>>,
       <<15787, 6521, 20775, 32393, 11>>, <<13288, 14563, 11037, 32289, 3>>, <<6158, 32003, 19372, 32225, 3>>, <<31767, 7824, 24, 32324, 3>>,
       <<13888, 30748, 21574, 32321, 3>>, <<21289, 9642, 31211, 32630, 3>>, <<17594, 28620, 12828, 32310, 11>>, <<30039, 16562, 11961, 32392, 11>>,
       <<28606, 10180, 16652, 32291, 3>>, <<3060, 24419, 3369, 32219, 3>>, <<3446, 9891, 19, 32328, 3>>, <<16640, 4329, 16846, 32325, 3>>,
       <<26427, 23980, 19436, 32630, 3>>, <<15043, 21725, 18756, 32313, 11>>, <<9007, 21064, 2601, 32391, 11>>, <<16447, 26489, 20181, 32293, 3>>,
       <<20607, 6372, 18810, 32212, 3>>, <<3420, 9700, 32767, 32331, 3>>, <<22816, 9054, 11917, 32329, 3>>, <<17567, 31332, 7460, 32630, 3>>,
       <<9567, 1552, 23679, 32316, 11>>, <<21135, 10981, 25483, 32389, 11>>, <<18686, 26344, 21608, 32295, 3>>, <<17952, 8087, 303, 32206, 3>>,
       <<28768, 32513, 22, 32336, 3>>, <<2400, 23869, 6841, 32333, 3>>, <<231, 15844, 28048, 32629, 3>>, <<26049, 23853, 27629, 32319, 11>>,
       <<22087, 22741, 15067, 32388, 11>>, <<2982, 27258, 20951, 32297, 3>>, <<16910, 2151, 13529, 32199, 3>>, <<10468, 15833, 32735, 32339, 3>>,
       <<30944, 10506, 1498, 32337, 3>>, <<31115, 25887, 15676, 32629, 3>>, <<6940, 12329, 30501, 32322, 11>>, <<8619, 29287, 4179, 32387, 11>>,
       <<23183, 16776, 18141, 32299, 3>>, <<17160, 31921, 25862, 32192, 3>>, <<21843, 31711, 32765, 32343, 3>>, <<27520, 15732, 28810, 32340, 3>>,
       <<24080, 8528, 3100, 32629, 3>>, <<27233, 32571, 32409, 32325, 11>>, <<20111, 13454, 25549, 32385, 11>>, <<9682, 24964, 13248, 32301, 3>>,
       <<303, 8389, 4679, 32186, 3>>, <<12965, 19762, 32761, 32347, 3>>, <<24544, 8173, 23123, 32344, 3>>, <<21383, 12867, 23100, 32628, 3>>,
       <<22874, 16619, 483, 32329, 11>>, <<5060, 9423, 13697, 32384, 11>>, <<10834, 26376, 6209, 32303, 3>>, <<7514, 2662, 15655, 32179, 3>>,
       <<23027, 26766, 32742, 32351, 3>>, <<8864, 8423, 17221, 32348, 3>>, <<787, 11443, 10141, 32628, 3>>, <<8253, 8050, 263, 32332, 11>>,
       <<6967, 32178, 2802, 32382, 11>>, <<17148, 23199, 29797, 32304, 3>>, <<21374, 10274, 26162, 32172, 3>>, <<29676, 10961, 29, 32356, 3>>,
       <<23520, 5219, 11185, 32352, 3>>, <<28840, 12772, 29752, 32627, 3>>, <<12594, 27205, 31803, 32334, 11>>, <<16962, 17139, 10064, 32379, 11>>,
       <<28621, 27848, 18508, 32306, 3>>, <<4245, 14547, 3571, 32166, 3>>, <<31135, 16436, 32737, 32359, 3>>, <<26272, 5046, 4833, 32356, 3>>,
       <<30734, 16860, 16418, 32627, 3>>, <<14644, 29824, 29420, 32337, 11>>, <<15922, 10529, 16575, 32376, 11>>, <<16695, 1786, 5032, 32308, 3>>,
       <<1370, 13273, 13555, 32159, 3>>, <<5271, 30590, 32741, 32363, 3>>, <<3296, 15361, 31100, 32359, 3>>, <<5575, 24716, 2891, 32627, 3>>,
       <<24108, 11093, 26004, 32340, 11>>, <<13954, 5769, 22244, 32373, 11>>, <<3415, 9689, 22206, 32309, 3>>, <<12718, 16816, 23481, 32152, 3>>,
       <<6944, 65, 33, 32368, 3>>, <<10080, 25227, 24438, 32363, 3>>, <<32241, 31803, 21942, 32626, 3>>, <<12047, 17165, 21536, 32343, 11>>,
       <<18589, 10304, 27110, 32370, 11>>, <<27436, 2719, 4489, 32311, 3>>, <<23180, 9512, 715, 32146, 3>>, <<5180, 349, 3, 32372, 3>>,
       <<256, 31042, 17476, 32367, 3>>, <<12427, 13262, 8053, 32626, 3>>, <<30367, 10355, 15906, 32346, 11>>, <<26112, 29467, 31309, 32367, 11>>,
       <<29577, 7756, 17366, 32312, 3>>, <<14142, 13588, 10924, 32139, 3>>, <<10243, 23206, 13, 32376, 3>>, <<23680, 5788, 10335, 32371, 3>>,
       <<30402, 18337, 26747, 32625, 3>>, <<30568, 23651, 9197, 32349, 11>>, <<739, 19783, 2015, 32365, 11>>, <<17600, 26325, 28118, 32313, 3>>,
       <<2826, 18062, 21470, 32132, 3>>, <<12227, 4465, 32745, 32379, 3>>, <<17760, 17098, 2927, 32375, 3>>, <<11063, 2021, 12501, 32625, 3>>,
       <<2006, 13060, 1341, 32352, 11>>, <<154, 15869, 4860, 32362, 11>>, <<22046, 21268, 3953, 32315, 3>>, <<30883, 20382, 32194, 32123, 3>>,
       <<20398, 22118, 11, 32384, 3>>, <<9696, 28502, 28141, 32378, 3>>, <<16679, 29003, 30837, 32624, 3>>, <<21873, 2731, 25187, 32354, 11>>,
       <<20358, 28173, 7014, 32359, 11>>, <<30275, 4167, 10452, 32316, 3>>, <<6376, 5922, 22628, 32110, 3>>, <<1790, 20831, 32754, 32385, 3>>,
       <<3072, 27252, 20270, 32382, 3>>, <<11403, 31639, 16243, 32624, 3>>, <<18175, 22628, 15069, 32357, 11>>, <<6867, 11715, 8643, 32356, 11>>,
       <<3729, 9609, 14799, 32317, 3>>, <<32176, 2593, 14488, 32097, 3>>, <<1207, 10003, 32755, 32387, 3>>, <<21664, 11877, 6109, 32385, 3>>,
       <<31411, 4994, 1473, 32624, 3>>, <<20520, 13820, 3850, 32360, 11>>, <<6195, 13400, 9670, 32353, 11>>, <<7631, 21000, 17045, 32318, 3>>,
       <<18003, 26927, 8015, 32084, 3>>, <<11735, 15781, 32764, 32389, 3>>, <<29728, 6910, 1975, 32387, 3>>, <<14160, 13613, 19299, 32623, 3>>,
       <<2078, 3823, 24267, 32362, 11>>, <<13571, 3365, 10154, 32350, 11>>, <<31207, 1367, 17189, 32319, 3>>, <<11188, 2408, 3448, 32071, 3>>,
       <<23770, 20642, 14, 32392, 3>>, <<5792, 1256, 30500, 32388, 3>>, <<6480, 26899, 4188, 32623, 3>>, <<28132, 29447, 10777, 32365, 11>>,
       <<1718, 13102, 10126, 32347, 11>>, <<9947, 25058, 15238, 32320, 3>>, <<7083, 12253, 1016, 32058, 3>>, <<7365, 26463, 7, 32394, 3>>,
       <<11168, 28099, 26114, 32390, 3>>, <<9857, 16514, 21687, 32622, 3>>, <<12939, 20679, 28869, 32367, 11>>, <<3418, 2743, 9671, 32344, 11>>,
       <<6828, 19686, 11190, 32321, 3>>, <<22768, 3703, 947, 32045, 3>>, <<9481, 27684, 14, 32396, 3>>, <<26528, 21564, 21622, 32392, 3>>,
       <<7986, 23576, 6252, 32622, 3>>, <<27518, 29556, 13050, 32370, 11>>, <<17180, 8580, 8762, 32341, 11>>, <<23134, 6039, 5074, 32322, 3>>,
       <<1535, 8651, 3461, 32032, 3>>, <<8531, 19781, 32766, 32397, 3>>, <<3520, 20291, 16987, 32394, 3>>, <<3903, 16963, 23431, 32621, 3>>,
       <<22178, 11331, 28806, 32372, 11>>, <<31492, 17604, 7488, 32338, 11>>, <<4238, 32535, 29655, 32322, 3>>, <<16598, 12391, 8774, 32019, 3>>,
       <<23215, 23144, 32756, 32399, 3>>, <<30560, 2679, 12236, 32396, 3>>, <<19241, 6261, 7683, 32621, 3>>, <<22190, 21838, 10632, 32375, 11>>,
       <<6035, 4059, 5837, 32335, 11>>, <<21546, 3926, 19426, 32323, 3>>, <<7834, 11037, 17096, 32006, 3>>, <<28762, 25241, 32755, 32401, 3>>,
       <<1120, 6829, 7369, 32398, 3>>, <<11581, 11238, 24545, 32620, 3>>, <<22472, 17320, 24064, 32377, 11>>, <<14405, 24779, 3835, 32332, 11>>,
       <<3288, 30542, 7167, 32324, 3>>, <<23756, 23920, 24494, 31987, 3>>, <<28617, 5980, 32760, 32403, 3>>, <<16736, 13391, 2382, 32400, 3>>,
       <<5998, 3122, 8485, 32620, 3>>, <<18924, 14357, 3557, 32380, 11>>, <<20885, 15560, 1521, 32329, 11>>, <<17685, 26700, 25663, 32324, 3>>,
       <<11877, 19826, 21619, 31962, 3>>, <<10206, 17711, 6, 32406, 3>>, <<10176, 22898, 30046, 32401, 3>>, <<4022, 18731, 25039, 32619, 3>>,
       <<8777, 1710, 14649, 32382, 11>>, <<24819, 15978, 31686, 32325, 11>>, <<3675, 16126, 9395, 32325, 3>>, <<15129, 8926, 25952, 31937, 3>>,
       <<24938, 25806, 32761, 32407, 3>>, <<30912, 26086, 24790, 32403, 3>>, <<25990, 10016, 8684, 32619, 3>>, <<6671, 24500, 12262, 32384, 11>>,
       <<11645, 815, 28883, 32322, 11>>, <<28839, 15667, 23908, 32325, 3>>, <<17253, 19019, 5097, 31913, 3>>, <<15136, 4138, 32761, 32409, 3>>,
       <<23744, 21599, 19417, 32405, 3>>, <<31716, 28751, 24947, 32618, 3>>, <<26904, 26804, 16614, 32385, 11>>, <<16242, 15352, 25849, 32319, 11>>,
       <<34, 2626, 3695, 32326, 3>>, <<13870, 11551, 24952, 31888, 3>>, <<22426, 580, 14, 32412, 3>>, <<16864, 24285, 13934, 32407, 3>>,
       <<8403, 3678, 8294, 32618, 3>>, <<4145, 16024, 20384, 32386, 11>>, <<32121, 17471, 22601, 32316, 11>>, <<7676, 14139, 14311, 32326, 3>>,
       <<1327, 397, 7890, 31857, 3>>, <<4417, 32231, 12, 32414, 3>>, <<18176, 3281, 8301, 32409, 3>>, <<3354, 12466, 24272, 32617, 3>>,
       <<9568, 18398, 23546, 32387, 11>>, <<10362, 24678, 19236, 32313, 11>>, <<21592, 5212, 23003, 32326, 3>>, <<17585, 12306, 15895, 31809, 3>>,
       <<3633, 18420, 5, 32416, 3>>, <<20480, 30380, 2529, 32411, 3>>, <<5082, 3920, 7345, 32617, 3>>, <<7560, 4727, 26109, 32388, 11>>,
       <<32316, 31571, 15760, 32310, 11>>, <<13105, 922, 29795, 32326, 3>>, <<28167, 28190, 9031, 31762, 3>>, <<4242, 26638, 13, 32418, 3>>,
       <<16384, 7700, 29408, 32412, 3>>, <<31339, 30536, 23044, 32616, 3>>, <<2375, 12529, 28083, 32389, 11>>, <<5798, 12587, 12169, 32307, 11>>,
       <<27678, 4967, 1943, 32327, 3>>, <<11142, 9247, 8611, 31687, 3>>, <<29184, 4353, 3, 32420, 3>>, <<13408, 15871, 23367, 32414, 3>>,
       <<22380, 5560, 5847, 32616, 3>>, <<21186, 17318, 29450, 32390, 11>>, <<9588, 31482, 8544, 32304, 11>>, <<3008, 1601, 5004, 32327, 3>>,
       <<26418, 18163, 9253, 31574, 3>>, <<21195, 6959, 1, 32422, 3>>, <<25120, 26437, 17199, 32416, 3>>, <<21777, 30461, 21282, 32615, 3>>,
       <<27209, 28396, 30224, 32391, 11>>, <<16700, 13655, 4873, 32301, 11>>, <<11339, 4123, 6235, 32327, 3>>, <<5570, 24717, 25258, 31233, 3>>,
       <<21407, 10030, 32758, 32423, 3>>, <<24256, 3407, 10888, 32418, 3>>, <<7646, 7823, 3823, 32615, 3>>, <<10628, 6692, 30397, 32392, 11>>,
       <<19952, 25092, 1210, 32298, 11>>, <<22029, 13912, 5660, 32327, 3>>, <<2189, 10808, 30370, 31506, 11>>, <<29023, 26120, 32767, 32425, 3>>,
       <<14592, 29246, 4457, 32420, 3>>, <<4056, 18620, 18998, 32614, 3>>, <<29217, 6851, 29982, 32393, 11>>, <<15257, 10195, 30307, 32294, 11>>,
       <<5383, 7728, 3304, 32327, 3>>, <<21084, 8471, 28879, 31649, 11>>, <<9094, 20765, 11, 32428, 3>>, <<22208, 27371, 30659, 32421, 3>>,
       <<22025, 1030, 1280, 32614, 3>>, <<1822, 28688, 28970, 32394, 11>>, <<24527, 25896, 26682, 32291, 11>>, <<25671, 30730, 31959, 32326, 3>>,
       <<17869, 24596, 70, 31737, 11>>, <<21904, 25065, 32757, 32429, 3>>, <<31456, 20634, 23924, 32423, 3>>, <<6326, 26045, 16215, 32613, 3>>,
       <<12098, 17768, 27346, 32395, 11>>, <<23186, 14416, 23188, 32288, 11>>, <<27738, 8762, 26121, 32326, 3>>, <<1541, 28161, 13061, 31783, 11>>,
       <<28243, 28186, 32758, 32431, 3>>, <<29952, 7263, 17070, 32425, 3>>, <<17053, 26020, 31024, 32612, 3>>, <<1665, 27186, 25136, 32396, 11>>,
       <<793, 32489, 19762, 32285, 11>>, <<9747, 12711, 18578, 32326, 3>>, <<24479, 21586, 20306, 31825, 11>>, <<6626, 14567, 32753, 32433, 3>>,
       <<11904, 7684, 10069, 32427, 3>>, <<6159, 12730, 12949, 32612, 3>>, <<7652, 15072, 22328, 32397, 11>>, <<27226, 20224, 16478, 32282, 11>>,
       <<7417, 11648, 9361, 32326, 3>>, <<23009, 10304, 4966, 31867, 11>>, <<18386, 13365, 32758, 32435, 3>>, <<12768, 27136, 2935, 32429, 3>>,
       <<28139, 7678, 27523, 32611, 3>>, <<9307, 31000, 18929, 32398, 11>>, <<4927, 3413, 13335, 32279, 11>>, <<20255, 15243, 31263, 32325, 3>>,
       <<14447, 11048, 32475, 31889, 11>>, <<4947, 24311, 32757, 32437, 3>>, <<26304, 27072, 28422, 32430, 3>>, <<22810, 2774, 9217, 32611, 3>>,
       <<20650, 1453, 14935, 32399, 11>>, <<1783, 25121, 10382, 32276, 11>>, <<11610, 15300, 18779, 32325, 3>>, <<1444, 4411, 1641, 31910, 11>>,
       <<996, 24661, 32751, 32439, 3>>, <<32192, 21574, 20993, 32432, 3>>, <<6003, 6544, 23569, 32610, 3>>, <<10698, 5920, 10345, 32400, 11>>,
       <<31516, 5099, 7646, 32273, 11>>, <<26897, 13843, 4706, 32325, 3>>, <<16794, 9754, 24496, 31929, 11>>, <<8506, 9496, 32760, 32441, 3>>,
       <<5248, 1171, 13433, 32434, 3>>, <<3376, 9528, 5040, 32610, 3>>, <<29273, 1776, 5170, 32401, 11>>, <<25852, 10935, 5119, 32270, 11>>,
       <<22019, 28005, 21836, 32324, 3>>, <<24390, 23687, 2576, 31949, 11>>, <<23674, 21529, 32751, 32443, 3>>, <<25120, 2913, 5712, 32436, 3>>,
       <<12992, 20706, 19177, 32609, 3>>, <<18814, 25830, 32165, 32401, 11>>, <<12343, 6771, 2875, 32267, 11>>, <<2735, 29990, 4671, 32324, 3>>,
       <<17426, 18602, 1270, 31968, 11>>, <<23224, 25373, 15, 32446, 3>>, <<16096, 591, 30649, 32437, 3>>, <<1981, 44, 431, 32609, 3>>,
       <<12098, 16348, 25821, 32402, 11>>, <<25057, 24814, 848, 32264, 11>>, <<17750, 15357, 18761, 32323, 3>>, <<31091, 29361, 20441, 31986, 11>>,
       <<23628, 998, 32757, 32447, 3>>, <<1952, 13516, 22619, 32439, 3>>, <<1079, 7097, 14367, 32608, 3>>, <<23274, 32617, 18866, 32403, 11>>,
       <<5234, 16822, 31983, 32260, 11>>, <<10779, 21803, 31396, 32322, 3>>, <<20386, 12517, 13599, 32002, 11>>, <<17515, 19855, 12, 32450, 3>>,
       <<15872, 11633, 14486, 32441, 3>>, <<24376, 6589, 28189, 32607, 3>>, <<1267, 8488, 11347, 32404, 11>>, <<25074, 20470, 30599, 32257, 11>>,
       <<15337, 22886, 9806, 32322, 3>>, <<26119, 13883, 10714, 32011, 11>>, <<12665, 5409, 15, 32452, 3>>, <<8736, 16905, 6186, 32443, 3>>,
       <<25334, 25709, 9151, 32607, 3>>, <<19935, 13138, 3236, 32405, 11>>, <<8321, 4269, 26424, 32253, 11>>, <<640, 26606, 19580, 32321, 3>>,
       <<2252, 24614, 1515, 32020, 11>>, <<12245, 21202, 15, 32454, 3>>, <<19200, 24933, 30503, 32444, 3>>, <<25749, 25900, 22787, 32606, 3>>,
       <<17130, 31453, 27311, 32405, 11>>, <<7213, 16669, 25163, 32247, 11>>, <<29667, 1584, 27976, 32320, 3>>, <<4413, 22564, 18726, 32028, 11>>,
       <<23647, 27516, 32760, 32455, 3>>, <<24512, 31641, 21882, 32446, 3>>, <<20343, 23895, 3569, 32606, 3>>, <<29765, 23273, 18032, 32406, 11>>,
       <<11483, 19582, 24755, 32241, 11>>, <<25262, 7391, 2264, 32320, 3>>, <<11073, 7373, 29540, 32036, 11>>, <<29901, 21778, 10, 32458, 3>>,
       <<22656, 29023, 13146, 32448, 3>>, <<19642, 2257, 17017, 32605, 3>>, <<26246, 22793, 8191, 32407, 11>>, <<23016, 4492, 25050, 32235, 11>>,
       <<21600, 1506, 7987, 32319, 3>>, <<21485, 26657, 1154, 32045, 11>>, <<32234, 16669, 11, 32460, 3>>, <<26912, 26890, 4244, 32450, 3>>,
       <<1144, 32338, 30380, 32604, 3>>, <<28143, 30467, 30538, 32407, 11>>, <<920, 25549, 26260, 32229, 11>>, <<12571, 1463, 12431, 32318, 3>>,
       <<32376, 12428, 31846, 32052, 11>>, <<19307, 27218, 9, 32462, 3>>, <<25088, 21310, 27956, 32451, 3>>, <<20255, 15661, 10891, 32604, 3>>,
       <<17874, 6298, 19546, 32408, 11>>, <<19898, 23452, 28383, 32223, 11>>, <<32457, 4623, 15622, 32317, 3>>, <<8021, 3715, 23288, 32060, 11>>,
       <<4332, 26569, 11, 32464, 3>>, <<17664, 1076, 18751, 32453, 3>>, <<30685, 30397, 24084, 32603, 3>>, <<28877, 7516, 7986, 32409, 11>>,
       <<16602, 10556, 31439, 32217, 11>>, <<30698, 6951, 17589, 32316, 3>>, <<24682, 15426, 8230, 32068, 11>>, <<25014, 2824, 32765, 32465, 3>>,
       <<21184, 28329, 9377, 32455, 3>>, <<12046, 21531, 4433, 32603, 3>>, <<6719, 14421, 28623, 32409, 11>>, <<20483, 4655, 2757, 32212, 11>>,
       <<26319, 30954, 18373, 32315, 3>>, <<3544, 31456, 19428, 32075, 11>>, <<10926, 4034, 10, 32468, 3>>, <<20480, 19391, 32642, 32456, 3>>,
       <<11781, 16816, 17462, 32602, 3>>, <<21266, 20181, 15938, 32410, 11>>, <<13741, 15832, 7779, 32206, 11>>, <<29758, 5149, 17986, 32314, 3>>,
       <<28616, 4325, 24108, 32082, 11>>, <<27780, 4944, 5, 32470, 3>>, <<5856, 14474, 22969, 32458, 3>>, <<30390, 14855, 30419, 32601, 3>>,
       <<8066, 21048, 2688, 32411, 11>>, <<24416, 2029, 13908, 32200, 11>>, <<7826, 18962, 16480, 32313, 3>>, <<555, 12020, 22265, 32089, 11>>,
       <<17121, 24217, 32764, 32471, 3>>, <<25920, 10308, 13138, 32460, 3>>, <<8202, 9518, 10534, 32601, 3>>, <<32001, 8871, 21649, 32411, 11>>,
       <<25214, 23675, 21134, 32194, 11>>, <<29489, 32103, 13881, 32312, 3>>, <<22286, 27994, 13902, 32096, 11>>, <<28958, 1510, 3, 32474, 3>>,
       <<17600, 923, 3164, 32462, 3>>, <<30747, 21702, 23339, 32600, 3>>, <<13897, 27851, 7292, 32412, 11>>, <<31686, 32481, 29440, 32188, 11>>,
       <<31790, 3131, 10212, 32311, 3>>, <<31171, 12399, 31795, 32102, 11>>, <<24960, 20207, 2, 32476, 3>>, <<3872, 26345, 25795, 32463, 3>>,
       <<5674, 8032, 3308, 32600, 3>>, <<3243, 19247, 25152, 32412, 11>>, <<23211, 14572, 6153, 32183, 11>>, <<22136, 14381, 5514, 32310, 3>>,
       <<28351, 9538, 10418, 32109, 11>>, <<5357, 4348, 32756, 32477, 3>>, <<23296, 32283, 15490, 32465, 3>>, <<28308, 14748, 15980, 32599, 3>>,
       <<25539, 5863, 9694, 32413, 11>>, <<20940, 5087, 16860, 32177, 11>>, <<3386, 12417, 32593, 32308, 3>>, <<19, 9673, 15323, 32115, 11>>,
       <<26499, 24592, 3, 32480, 3>>, <<128, 6793, 5054, 32467, 3>>, <<2906, 27442, 28576, 32598, 3>>, <<7046, 20040, 26468, 32413, 11>>,
       <<16385, 1052, 28699, 32171, 11>>, <<18603, 8653, 25918, 32307, 3>>, <<2599, 13510, 13762, 32121, 11>>, <<22776, 3196, 6, 32482, 3>>,
       <<7072, 14452, 27216, 32468, 3>>, <<32210, 27610, 8344, 32598, 3>>, <<23376, 6158, 9932, 32414, 11>>, <<31036, 18514, 9054, 32166, 11>>,
       <<15394, 11040, 18314, 32306, 3>>, <<13897, 25073, 5759, 32127, 11>>, <<17343, 22725, 32753, 32483, 3>>, <<22592, 12308, 16433, 32470, 3>>,
       <<22536, 17827, 20825, 32597, 3>>, <<1772, 22902, 25622, 32414, 11>>, <<17116, 1084, 23517, 32160, 11>>, <<3837, 19137, 9819, 32305, 3>>,
       <<25754, 25238, 12055, 32130, 11>>, <<8713, 26981, 8, 32486, 3>>, <<15168, 27934, 5527, 32472, 3>>, <<18758, 15483, 464, 32597, 3>>,
       <<26446, 17846, 8023, 32415, 11>>, <<16382, 18694, 6394, 32155, 11>>, <<14635, 2528, 423, 32304, 3>>, <<513, 29026, 1656, 32133, 11>>,
       <<31225, 21899, 32754, 32487, 3>>, <<23744, 13192, 27193, 32473, 3>>, <<7204, 9329, 12827, 32596, 3>>, <<13003, 1733, 22654, 32415, 11>>,
       <<18086, 3470, 23495, 32149, 11>>, <<10566, 1242, 22981, 32302, 3>>, <<20085, 4867, 20853, 32135, 11>>, <<3172, 6912, 16, 32490, 3>>,
       <<25984, 4446, 15974, 32475, 3>>, <<20178, 26929, 25117, 32595, 3>>, <<30144, 24338, 4003, 32416, 11>>, <<7723, 32080, 9042, 32144, 11>>,
       <<31310, 20607, 11924, 32301, 3>>, <<20784, 8928, 4128, 32138, 11>>, <<17664, 25036, 32762, 32491, 3>>, <<24896, 17993, 4552, 32477, 3>>,
       <<22144, 6325, 4602, 32595, 3>>, <<1069, 16510, 17590, 32416, 11>>, <<14492, 11008, 28878, 32138, 11>>, <<2206, 5043, 121, 32300, 3>>,
       <<21839, 24364, 17039, 32140, 11>>, <<29931, 23545, 32760, 32493, 3>>, <<10144, 15930, 25754, 32478, 3>>, <<1738, 13701, 16796, 32594, 3>>,
       <<19937, 12820, 30665, 32416, 11>>, <<28581, 6051, 17298, 32133, 11>>, <<1744, 24650, 20321, 32298, 3>>, <<5542, 23368, 26842, 32142, 11>>,
       <<15298, 5225, 32758, 32495, 3>>, <<8896, 2543, 14027, 32480, 3>>, <<2995, 24046, 28940, 32593, 3>>, <<25724, 11740, 10460, 32417, 11>>,
       <<28859, 14020, 7147, 32128, 11>>, <<3558, 3553, 7034, 32297, 3>>, <<25083, 31904, 793, 32145, 11>>, <<5568, 9416, 32759, 32497, 3>>,
       <<10560, 12368, 2141, 32482, 3>>, <<24011, 26403, 8267, 32593, 3>>, <<24330, 12763, 22516, 32417, 11>>, <<2479, 4427, 29642, 32117, 11>>,
       <<24931, 6642, 25821, 32295, 3>>, <<1153, 27971, 4455, 32147, 11>>, <<9842, 28654, 32764, 32499, 3>>, <<15808, 20308, 22865, 32483, 3>>,
       <<1715, 11677, 20315, 32592, 3>>, <<32401, 26630, 1301, 32418, 11>>, <<17477, 30297, 15140, 32107, 11>>, <<28929, 2761, 11176, 32294, 3>>,
       <<19812, 6291, 5088, 32149, 11>>, <<16399, 16951, 32758, 32501, 3>>, <<13920, 3012, 10650, 32485, 3>>, <<9110, 17592, 32322, 32591, 3>>,
       <<29263, 5320, 12354, 32418, 11>>, <<7810, 24334, 3684, 32097, 11>>, <<31621, 5623, 28676, 32292, 3>>, <<29694, 7711, 2720, 32151, 11>>,
       <<30061, 26150, 32764, 32503, 3>>, <<19488, 14945, 31050, 32486, 3>>, <<18719, 16370, 11515, 32591, 3>>, <<15022, 31957, 22913, 32418, 11>>,
       <<10637, 32021, 27952, 32086, 11>>, <<32637, 19377, 12796, 32291, 3>>, <<17549, 20026, 30150, 32152, 11>>, <<1390, 8855, 6, 32506, 3>>,
       <<15136, 21891, 18522, 32488, 3>>, <<17173, 4984, 23435, 32590, 3>>, <<32401, 156, 216, 32419, 11>>, <<8073, 30496, 22495, 32076, 11>>,
       <<24650, 32439, 29108, 32289, 3>>, <<16274, 7445, 21875, 32154, 11>>, <<17448, 6696, 15, 32508, 3>>, <<5696, 12925, 5831, 32490, 3>>,
       <<24555, 19167, 2548, 32590, 3>>, <<16709, 5103, 9800, 32419, 11>>, <<4468, 23204, 20135, 32066, 11>>, <<29983, 22094, 12108, 32288, 3>>,
       <<17906, 8011, 10695, 32156, 11>>, <<23513, 168, 8, 32510, 3>>, <<22880, 27245, 25731, 32491, 3>>, <<7845, 21971, 14398, 32589, 3>>,
       <<26356, 29114, 18900, 32419, 11>>, <<20340, 27280, 20982, 32056, 11>>, <<17267, 29151, 27371, 32286, 3>>, <<14436, 32077, 29412, 32157, 11>>,
       <<10920, 13534, 32751, 32511, 3>>, <<31392, 26689, 12686, 32493, 3>>, <<3243, 23194, 26219, 32588, 3>>, <<24690, 32664, 27522, 32419, 11>>,
       <<31306, 19326, 25072, 32046, 11>>, <<7909, 27443, 9391, 32285, 3>>, <<7432, 28641, 12527, 32159, 11>>, <<6344, 19618, 32766, 32512, 3>>,
       <<3072, 22510, 32276, 32494, 3>>, <<10981, 22958, 5227, 32588, 3>>, <<5317, 7855, 2910, 32420, 11>>, <<523, 23700, 32160, 32036, 11>>,
       <<22234, 19266, 23688, 32283, 3>>, <<100, 13291, 25612, 32160, 11>>, <<1366, 14358, 6, 32514, 3>>, <<8704, 29783, 18935, 32496, 3>>,
       <<31317, 4482, 16972, 32587, 3>>, <<32509, 10996, 10598, 32420, 11>>, <<29371, 19601, 9688, 32027, 11>>, <<27057, 12874, 4781, 32282, 3>>,
       <<11739, 1770, 3168, 32162, 11>>, <<475, 1162, 32767, 32514, 3>>, <<15552, 18731, 5406, 32498, 3>>, <<23417, 7748, 28697, 32586, 3>>,
       <<30136, 17095, 17820, 32420, 11>>, <<14495, 5875, 23373, 32017, 11>>, <<14270, 27233, 18258, 32280, 3>>, <<5238, 6950, 10769, 32163, 11>>,
       <<9724, 3234, 32762, 32515, 3>>, <<11616, 21695, 24484, 32499, 3>>, <<12522, 14375, 7625, 32586, 3>>, <<11210, 24167, 24585, 32420, 11>>,
       <<31851, 15656, 7531, 32008, 11>>, <<24603, 12715, 31351, 32278, 3>>, <<19040, 5167, 15687, 32164, 11>>, <<11301, 8445, 8, 32517, 3>>,
       <<12672, 4168, 10660, 32501, 3>>, <<587, 26227, 19283, 32585, 3>>, <<29813, 25227, 30901, 32420, 11>>, <<5156, 174, 22368, 31997, 11>>,
       <<20356, 2979, 11290, 32277, 3>>, <<15038, 31607, 17961, 32165, 11>>, <<26068, 26349, 32765, 32517, 3>>, <<30048, 28479, 29399, 32502, 3>>,
       <<13458, 7619, 30934, 32584, 3>>, <<1107, 4755, 3997, 32421, 11>>, <<23663, 31952, 3986, 31979, 11>>, <<28722, 2403, 23707, 32275, 3>>,
       <<19514, 15581, 17634, 32166, 11>>, <<28206, 11819, 32760, 32518, 3>>, <<15232, 14275, 15214, 32504, 3>>, <<15712, 13095, 9791, 32584, 3>>,
       <<26887, 14089, 9418, 32421, 11>>, <<14942, 16635, 24939, 31960, 11>>, <<10244, 26031, 3043, 32274, 3>>, <<9024, 7093, 14746, 32167, 11>>,
       <<30572, 32378, 5, 32520, 3>>, <<24832, 16947, 893, 32506, 3>>, <<15611, 30345, 21383, 32583, 3>>, <<18046, 11718, 14404, 32421, 11>>,
       <<1058, 7789, 19475, 31942, 11>>, <<2222, 26318, 14837, 32272, 3>>, <<25997, 12134, 9339, 32168, 11>>, <<31589, 31512, 32763, 32520, 3>>,
       <<5472, 8100, 19138, 32507, 3>>, <<31498, 3809, 205, 32583, 3>>, <<26499, 14366, 18953, 32421, 11>>, <<868, 32764, 21169, 31924, 11>>,
       <<16204, 19027, 26415, 32270, 3>>, <<26096, 22759, 1456, 32169, 11>>, <<28273, 24391, 2, 32522, 3>>, <<19808, 18020, 4475, 32509, 3>>,
       <<1247, 16365, 11766, 32582, 3>>, <<21325, 12123, 23076, 32421, 11>>, <<28272, 20046, 29325, 31906, 11>>, <<29617, 17399, 4966, 32269, 3>>,
       <<9076, 16244, 23909, 32169, 11>>, <<24967, 26214, 32765, 32522, 3>>, <<3328, 31689, 22396, 32510, 3>>, <<13638, 6524, 23320, 32581, 3>>,
       <<7115, 13906, 26774, 32421, 11>>, <<4812, 16238, 11709, 31889, 11>>, <<2827, 11205, 16097, 32267, 3>>, <<16956, 18046, 11205, 32170, 11>>,
       <<31618, 22664, 32765, 32523, 3>>, <<27840, 1041, 3696, 32512, 3>>, <<22822, 4578, 2089, 32581, 3>>, <<2755, 19201, 30054, 32421, 11>>,
       <<28458, 15838, 821, 31872, 11>>, <<19111, 22474, 27035, 32265, 3>>, <<3300, 2692, 28925, 32170, 11>>, <<11105, 23846, 32766, 32524, 3>>,
       <<7104, 16402, 28879, 32512, 3>>, <<19968, 10956, 13613, 32580, 3>>, <<23227, 12094, 153, 32422, 11>>, <<17194, 3887, 26266, 31837, 11>>,
       <<30286, 11177, 5042, 32264, 3>>, <<12894, 22392, 11576, 32171, 11>>, <<11856, 29733, 32766, 32525, 3>>, <<8224, 10071, 21211, 32513, 3>>,
       <<20228, 22457, 25127, 32579, 3>>, <<25537, 19880, 2611, 32422, 11>>, <<4604, 26308, 31858, 31803, 11>>, <<4583, 29206, 15678, 32262, 3>>,
       <<15898, 9657, 24741, 32171, 11>>, <<7745, 5771, 5, 32527, 3>>, <<22528, 23424, 13464, 32514, 3>>, <<23402, 8900, 3861, 32579, 3>>,
       <<21401, 24571, 4666, 32422, 11>>, <<22986, 16480, 18221, 31770, 11>>, <<20697, 15563, 26187, 32260, 3>>, <<13159, 4343, 2928, 32172, 11>>,
       <<28467, 25696, 0, 32528, 3>>, <<27872, 30198, 5626, 32515, 3>>, <<28355, 17349, 15362, 32578, 3>>, <<18630, 28477, 6322, 32422, 11>>,
       <<26833, 12987, 4643, 31731, 11>>, <<29249, 19515, 3849, 32259, 3>>, <<15277, 21836, 11718, 32172, 11>>, <<18540, 9748, 3, 32529, 3>>,
       <<20608, 9260, 30479, 32515, 3>>, <<26047, 19815, 26853, 32577, 3>>, <<19950, 31680, 7585, 32422, 11>>, <<1327, 30, 32734, 31665, 11>>,
       <<24285, 20966, 14192, 32257, 3>>, <<20369, 18083, 18390, 32172, 11>>, <<1020, 17084, 32760, 32529, 3>>, <<2560, 15984, 22470, 32516, 3>>,
       <<24383, 4476, 5581, 32577, 3>>, <<16247, 14066, 8460, 32422, 11>>, <<5048, 17587, 14733, 31587, 11>>, <<19259, 6332, 16238, 32255, 3>>,
       <<7335, 19965, 22989, 32172, 11>>, <<22109, 20583, 1, 32531, 3>>, <<10432, 18733, 14393, 32517, 3>>, <<19107, 2920, 17061, 32576, 3>>,
       <<16506, 2742, 8952, 32422, 11>>, <<28836, 23815, 670, 31433, 11>>, <<27230, 3092, 3954, 32252, 3>>, <<3815, 25011, 25561, 32172, 11>>,
       <<19792, 20570, 3, 32532, 3>>, <<21248, 4798, 6228, 32518, 3>>, <<14263, 15654, 28544, 32575, 3>>, <<28522, 11896, 9065, 32422, 11>>,
       <<22109, 2590, 23327, 31173, 3>>, <<14026, 5001, 24431, 32248, 3>>, <<23264, 2989, 26153, 32172, 11>>, <<27147, 16502, 32764, 32532, 3>>,
       <<10016, 24842, 30740, 32518, 3>>, <<21389, 2624, 7266, 32575, 3>>, <<26979, 19736, 8805, 32422, 11>>, <<2736, 32149, 7090, 31508, 3>>,
       <<17853, 14037, 12178, 32245, 3>>, <<5764, 11957, 24809, 32172, 11>>, <<7571, 21045, 7, 32534, 3>>, <<31264, 28418, 22415, 32519, 3>>,
       <<23959, 18248, 18745, 32574, 3>>, <<17517, 16135, 8177, 32422, 11>>, <<10, 15161, 1637, 31623, 3>>, <<10464, 28227, 32676, 32241, 3>>,
       <<10304, 28411, 21576, 32172, 11>>, <<18760, 3574, 32767, 32534, 3>>, <<24640, 6598, 13993, 32520, 3>>, <<287, 31858, 30240, 32573, 3>>,
       <<24863, 27605, 7186, 32422, 11>>, <<25131, 12888, 3680, 31683, 3>>, <<9047, 27735, 20554, 32238, 3>>, <<526, 15900, 16501, 32172, 11>>,
       <<20205, 29590, 32764, 32535, 3>>, <<11616, 4833, 5492, 32521, 3>>, <<31387, 27830, 8968, 32573, 3>>, <<30002, 4683, 5838, 32422, 11>>,
       <<12400, 28860, 11277, 31742, 3>>, <<29619, 7643, 8528, 32235, 3>>, <<9514, 3896, 9629, 32172, 11>>, <<12747, 92, 32760, 32536, 3>>,
       <<14208, 1018, 29674, 32521, 3>>, <<5735, 14205, 20472, 32572, 3>>, <<29895, 24717, 4136, 32422, 11>>, <<27633, 7868, 11962, 31772, 3>>,
       <<23704, 1774, 29430, 32231, 3>>, <<1963, 17873, 1005, 32172, 11>>, <<16381, 23439, 3, 32538, 3>>, <<20992, 2464, 21017, 32522, 3>>,
       <<7589, 18580, 31972, 32571, 3>>, <<25793, 16238, 2086, 32422, 11>>, <<3045, 2614, 5002, 31801, 3>>, <<30432, 8440, 17693, 32228, 3>>,
       <<28843, 13199, 23444, 32171, 11>>, <<10288, 7176, 7, 32539, 3>>, <<27360, 714, 12271, 32523, 3>>, <<11127, 23158, 10718, 32571, 3>>,
       <<17046, 26965, 32461, 32421, 11>>, <<10690, 2916, 16832, 31829, 3>>, <<9547, 4025, 6202, 32225, 3>>, <<30563, 4635, 11455, 32171, 11>>,
       <<31828, 4977, 32762, 32539, 3>>, <<14976, 28577, 3429, 32524, 3>>, <<10813, 19481, 22253, 32570, 3>>, <<14709, 24855, 29732, 32421, 11>>,
       <<4672, 31764, 14491, 31857, 3>>, <<3878, 12530, 27784, 32221, 3>>, <<29658, 297, 30619, 32170, 11>>, <<10306, 13979, 6, 32541, 3>>,
       <<20800, 8217, 27292, 32524, 3>>, <<30857, 12291, 1015, 32570, 3>>, <<18006, 22629, 26668, 32421, 11>>, <<17570, 7572, 15974, 31878, 3>>,
       <<13379, 4876, 16795, 32218, 3>>, <<29365, 204, 15445, 32170, 11>>, <<25576, 7382, 3, 32542, 3>>, <<2784, 14870, 18292, 32525, 3>>,
       <<28902, 25868, 12567, 32569, 3>>, <<11822, 9348, 23278, 32421, 11>>, <<8518, 16806, 1286, 31892, 3>>, <<8993, 28298, 6168, 32215, 3>>,
       <<8022, 28594, 31513, 32169, 11>>, <<9735, 8852, 32764, 32542, 3>>, <<28448, 3582, 9207, 32526, 3>>, <<18343, 16592, 24136, 32568, 3>>,
       <<21254, 19767, 19565, 32421, 11>>, <<21130, 2559, 12520, 31905, 3>>, <<2085, 20472, 28663, 32211, 3>>, <<29114, 1512, 13334, 32169, 11>>,
       <<7037, 949, 32767, 32543, 3>>, <<2112, 32349, 45, 32527, 3>>, <<4403, 2158, 2946, 32568, 3>>, <<31716, 37, 15534, 32421, 11>>,
       <<32587, 32648, 17106, 31918, 3>>, <<14021, 12309, 18727, 32208, 3>>, <<4237, 21320, 26485, 32168, 11>>, <<7219, 16955, 32763, 32544, 3>>,
       <<27680, 20359, 23565, 32527, 3>>, <<30368, 1236, 14544, 32567, 3>>, <<19218, 11426, 11190, 32421, 11>>, <<10501, 3956, 14860, 31931, 3>>,
       <<4641, 19508, 9208, 32205, 3>>, <<11168, 15018, 5476, 32168, 11>>, <<18038, 29742, 32767, 32545, 3>>, <<30816, 8031, 14240, 32528, 3>>,
       <<20834, 15693, 26154, 32566, 3>>, <<31547, 22308, 6537, 32421, 11>>, <<23472, 28821, 5987, 31944, 3>>, <<19893, 14992, 87, 32202, 3>>,
       <<28484, 28797, 15885, 32167, 11>>, <<32676, 6794, 32764, 32546, 3>>, <<21248, 16078, 4826, 32529, 3>>, <<13137, 29714, 5020, 32566, 3>>,
       <<16376, 6117, 1583, 32421, 11>>, <<3094, 2423, 23082, 31956, 3>>, <<14709, 10231, 24210, 32198, 3>>, <<25851, 30319, 24988, 32166, 11>>,
       <<3671, 7970, 32762, 32547, 3>>, <<14400, 15141, 28099, 32529, 3>>, <<17241, 4960, 16674, 32565, 3>>, <<2047, 11926, 29098, 32420, 11>>,
       <<593, 19428, 760, 31969, 3>>, <<26429, 1490, 16034, 32195, 3>>, <<30032, 6693, 60, 32166, 11>>, <<31851, 26183, 5, 32549, 3>>,
       <<13344, 18076, 18531, 32530, 3>>, <<32295, 25839, 28339, 32564, 3>>, <<27322, 32522, 23549, 32420, 11>>, <<5388, 12880, 4730, 31981, 3>>,
       <<27174, 32108, 8312, 32192, 3>>, <<1733, 29014, 6677, 32165, 11>>, <<1280, 25470, 2, 32550, 3>>, <<11392, 31510, 8870, 32531, 3>>,
       <<15682, 1367, 7269, 32564, 3>>, <<26186, 22761, 17715, 32420, 11>>, <<28396, 8583, 1915, 31993, 3>>, <<10757, 13921, 1161, 32189, 3>>,
       <<28483, 22695, 12115, 32164, 11>>, <<8315, 14862, 4, 32551, 3>>, <<30624, 13513, 31899, 32531, 3>>, <<16050, 20383, 18986, 32563, 3>>,
       <<12871, 32663, 11596, 32420, 11>>, <<19009, 20074, 12674, 32002, 3>>, <<29306, 24557, 27307, 32185, 3>>, <<27570, 28724, 16414, 32163, 11>>,
       <<27462, 15981, 32761, 32551, 3>>, <<20864, 27579, 22068, 32532, 3>>, <<27379, 24822, 30736, 32562, 3>>, <<14054, 1303, 5202, 32420, 11>>,
       <<16089, 4402, 4665, 32008, 3>>, <<31833, 3354, 21293, 32182, 3>>, <<18825, 6800, 19616, 32162, 11>>, <<30553, 22011, 4, 32553, 3>>,
       <<12928, 22072, 12171, 32533, 3>>, <<23213, 7051, 9730, 32562, 3>>, <<25527, 22563, 31296, 32419, 11>>, <<13123, 4547, 26298, 32013, 3>>,
       <<447, 32394, 15795, 32179, 3>>, <<14558, 31149, 21759, 32161, 11>>, <<9251, 16310, 7, 32554, 3>>, <<704, 22024, 2186, 32534, 3>>,
       <<22523, 20428, 21523, 32561, 3>>, <<16297, 24010, 24355, 32419, 11>>, <<22597, 21209, 11881, 32019, 3>>, <<9967, 21621, 10933, 32176, 3>>,
       <<25076, 28169, 22885, 32160, 11>>, <<10063, 26021, 32761, 32554, 3>>, <<29248, 11644, 24876, 32534, 3>>, <<11998, 7337, 587, 32561, 3>>,
       <<16726, 30444, 17153, 32419, 11>>, <<16103, 6965, 26929, 32024, 3>>, <<9789, 20787, 6750, 32173, 3>>, <<32689, 5108, 23033, 32159, 11>>,
       <<27699, 23778, 3, 32556, 3>>, <<16352, 20638, 14732, 32535, 3>>, <<22304, 12344, 12432, 32560, 3>>, <<12481, 1799, 9687, 32419, 11>>,
       <<6746, 2068, 6143, 32030, 3>>, <<15218, 5878, 3140, 32170, 3>>, <<1025, 17120, 22240, 32158, 11>>, <<19754, 12363, 32766, 32556, 3>>,
       <<20288, 23519, 4496, 32536, 3>>, <<8983, 30761, 24316, 32559, 3>>, <<19678, 17652, 1968, 32419, 11>>, <<22583, 23377, 14869, 32035, 3>>,
       <<29896, 17093, 241, 32167, 3>>, <<22902, 2814, 20546, 32157, 11>>, <<17101, 31828, 32759, 32557, 3>>, <<3520, 18978, 26946, 32536, 3>>,
       <<4712, 26526, 3464, 32559, 3>>, <<32188, 27926, 26767, 32418, 11>>, <<28905, 15489, 20439, 32040, 3>>, <<4126, 15371, 30795, 32163, 3>>,
       <<11189, 13497, 17987, 32156, 11>>, <<1945, 11878, 1, 32559, 3>>, <<13440, 27210, 16557, 32537, 3>>, <<9306, 8251, 15402, 32558, 3>>,
       <<21711, 10830, 18549, 32418, 11>>, <<187, 30688, 22958, 32045, 3>>, <<30642, 9589, 29231, 32160, 3>>, <<9242, 16038, 14601, 32155, 11>>,
       <<21978, 6848, 5, 32560, 3>>, <<23136, 32349, 6083, 32538, 3>>, <<22784, 26068, 27375, 32557, 3>>, <<1876, 25601, 10090, 32418, 11>>,
       <<28603, 12778, 22340, 32050, 3>>, <<16818, 4929, 28398, 32157, 3>>, <<24828, 23834, 10424, 32154, 11>>, <<2507, 22640, 4, 32561, 3>>,
       <<20544, 602, 28294, 32538, 3>>, <<18921, 20028, 6617, 32557, 3>>, <<25110, 17948, 1396, 32418, 11>>, <<18423, 22027, 18613, 32055, 3>>,
       <<14123, 8141, 28307, 32154, 3>>, <<31291, 30839, 5492, 32153, 11>>, <<32460, 3944, 2, 32562, 3>>, <<21888, 21218, 17653, 32539, 3>>,
       <<3689, 4598, 18663, 32556, 3>>, <<8046, 19322, 25238, 32417, 11>>, <<5071, 32566, 11813, 32060, 3>>, <<31887, 27114, 28965, 32151, 3>>,
       <<10954, 11481, 32609, 32151, 11>>, <<14719, 20108, 2, 32563, 3>>, <<2368, 15149, 6934, 32540, 3>>, <<15448, 1550, 30742, 32555, 3>>,
       <<131, 31866, 16083, 32417, 11>>, <<7915, 5948, 1989, 32065, 3>>, <<28290, 12965, 30372, 32148, 3>>, <<26280, 18608, 26272, 32150, 11>>,
       <<2379, 18886, 3, 32564, 3>>, <<14592, 27644, 28902, 32540, 3>>, <<4894, 28090, 10088, 32555, 3>>, <<4064, 26863, 6705, 32417, 11>>,
       <<12559, 13664, 21918, 32069, 3>>, <<12805, 26056, 32547, 32145, 3>>, <<13683, 19600, 19284, 32149, 11>>, <<30599, 17862, 7, 32565, 3>>,
       <<9760, 20394, 18024, 32541, 3>>, <<26061, 27568, 22238, 32554, 3>>, <<3283, 25280, 29875, 32416, 11>>, <<26713, 5875, 6101, 32074, 3>>,
       <<12333, 3393, 2729, 32143, 3>>, <<9051, 27153, 11678, 32148, 11>>, <<15355, 7145, 32760, 32565, 3>>, <<14048, 3557, 7053, 32542, 3>>,
       <<12222, 27825, 1670, 32554, 3>>, <<8503, 28955, 20068, 32416, 11>>, <<17082, 19303, 19999, 32078, 3>>, <<6137, 11879, 6528, 32140, 3>>,
       <<18757, 950, 3488, 32147, 11>>, <<27882, 21632, 32767, 32566, 3>>, <<21504, 14183, 28784, 32542, 3>>, <<32398, 9855, 13895, 32553, 3>>,
       <<32745, 28025, 10044, 32416, 11>>, <<1455, 11912, 31056, 32082, 3>>, <<6150, 14344, 11067, 32137, 3>>, <<25943, 11290, 27512, 32145, 11>>,
       <<27237, 23043, 3, 32568, 3>>, <<5120, 10698, 17665, 32543, 3>>, <<4377, 14615, 26161, 32552, 3>>, <<20471, 26068, 32583, 32415, 11>>,
       <<461, 24857, 6412, 32087, 3>>, <<10999, 12993, 16432, 32134, 3>>, <<3365, 9706, 18247, 32144, 11>>, <<5611, 426, 8, 32569, 3>>,
       <<13280, 12407, 6466, 32544, 3>>, <<23665, 25646, 5699, 32552, 3>>, <<12636, 27703, 22152, 32415, 11>>, <<27388, 13990, 11646, 32091, 3>>,
       <<25165, 20066, 22622, 32131, 3>>, <<16468, 25425, 8491, 32143, 11>>, <<24173, 9799, 4, 32570, 3>>, <<26400, 10503, 27950, 32544, 3>>,
       <<14849, 8271, 18052, 32551, 3>>, <<3215, 30511, 11526, 32415, 11>>, <<25194, 28362, 13981, 32095, 3>>, <<3210, 12267, 29670, 32128, 3>>,
       <<17224, 1550, 31044, 32141, 11>>, <<13514, 19349, 32764, 32570, 3>>, <<21952, 3, 16584, 32545, 3>>, <<31596, 2791, 30449, 32550, 3>>,
       <<7466, 996, 709, 32415, 11>>, <<8207, 9083, 13463, 32099, 3>>, <<28264, 12907, 9609, 32124, 3>>, <<1673, 24348, 20397, 32140, 11>>,
       <<8054, 8484, 32762, 32571, 3>>, <<12032, 22925, 5141, 32546, 3>>, <<15790, 6655, 10117, 32550, 3>>, <<32452, 5704, 22468, 32414, 11>>,
       <<17686, 10366, 10154, 32103, 3>>, <<2801, 25749, 27087, 32118, 3>>, <<11330, 28373, 9349, 32139, 11>>, <<30779, 3941, 32761, 32572, 3>>,
       <<7968, 27523, 26388, 32546, 3>>, <<8381, 31006, 22595, 32549, 3>>, <<10765, 26558, 11273, 32414, 11>>, <<22238, 18315, 4064, 32107, 3>>,
       <<5803, 14498, 13510, 32113, 3>>, <<10610, 25820, 30696, 32137, 11>>, <<31145, 24124, 32764, 32573, 3>>, <<30144, 28827, 14791, 32547, 3>>,
       <<12733, 27405, 2347, 32549, 3>>, <<7771, 24048, 32664, 32413, 11>>, <<5872, 26385, 28001, 32110, 3>>, <<24184, 18987, 1640, 32108, 3>>,
       <<32208, 8269, 18930, 32136, 11>>, <<3333, 11897, 6, 32575, 3>>, <<5504, 25079, 3119, 32548, 3>>, <<12430, 26829, 14908, 32548, 3>>,
       <<8218, 14503, 21108, 32413, 11>>, <<16109, 18976, 16460, 32114, 3>>, <<29871, 9505, 24253, 32102, 3>>, <<59, 12254, 6845, 32135, 11>>,
       <<16530, 21471, 32765, 32575, 3>>, <<14336, 1592, 24125, 32548, 3>>, <<1610, 18370, 27526, 32547, 3>>, <<20676, 19672, 9385, 32413, 11>>,
       <<9406, 305, 2149, 32118, 3>>, <<22496, 24028, 15952, 32097, 3>>, <<22320, 21018, 27236, 32133, 11>>, <<21042, 2646, 7, 32577, 3>>,
       <<13120, 9584, 12295, 32549, 3>>, <<31989, 9782, 7411, 32547, 3>>, <<1520, 3322, 30255, 32412, 11>>, <<13781, 21763, 17992, 32121, 3>>,
       <<3728, 5444, 9326, 32092, 3>>, <<28630, 30137, 14593, 32132, 11>>, <<20031, 31386, 2, 32578, 3>>, <<15456, 13883, 378, 32550, 3>>,
       <<10743, 4524, 20119, 32546, 3>>, <<28487, 10195, 18196, 32412, 11>>, <<15723, 11888, 31140, 32124, 3>>, <<8633, 20252, 4548, 32087, 3>>,
       <<19728, 14826, 1710, 32131, 11>>, <<7357, 6413, 6, 32579, 3>>, <<1440, 31301, 21155, 32550, 3>>, <<9329, 29552, 101, 32546, 3>>,
       <<10537, 14460, 5973, 32412, 11>>, <<4082, 30297, 4461, 32128, 3>>, <<19023, 29615, 1520, 32082, 3>>, <<14292, 28367, 21378, 32129, 11>>,
       <<14096, 27574, 32762, 32579, 3>>, <<15520, 5927, 9078, 32551, 3>>, <<26303, 19853, 12909, 32545, 3>>, <<25249, 18013, 26366, 32411, 11>>,
       <<32271, 17167, 24801, 32129, 3>>, <<2867, 5748, 362, 32077, 3>>, <<937, 5596, 8087, 32128, 11>>, <<30691, 3192, 2, 32581, 3>>,
       <<7808, 8090, 29702, 32551, 3>>, <<2367, 20816, 25754, 32544, 3>>, <<13389, 27612, 13830, 32411, 11>>, <<29330, 20611, 11120, 32131, 3>>,
       <<22027, 18696, 912, 32072, 3>>, <<12042, 17650, 22021, 32125, 11>>, <<687, 7603, 32764, 32581, 3>>, <<2752, 11717, 17472, 32552, 3>>,
       <<4846, 28962, 5888, 32544, 3>>, <<3527, 5031, 1150, 32411, 11>>, <<14839, 26785, 28918, 32132, 3>>, <<3146, 25178, 3336, 32067, 3>>,
       <<8210, 29913, 27576, 32122, 11>>, <<11950, 1415, 0, 32583, 3>>, <<2624, 342, 5171, 32553, 3>>, <<5061, 3243, 18835, 32543, 3>>,
       <<26880, 12375, 21087, 32410, 11>>, <<27961, 20648, 12709, 32134, 3>>, <<6653, 14089, 7527, 32062, 3>>, <<9015, 27974, 116, 32120, 11>>,
       <<10619, 22911, 3, 32584, 3>>, <<20192, 7450, 25560, 32553, 3>>, <<4915, 26659, 31831, 32542, 3>>, <<18932, 31298, 8113, 32410, 11>>,
       <<7484, 29988, 28027, 32135, 3>>, <<16009, 21202, 13537, 32057, 3>>, <<30195, 18241, 5220, 32117, 11>>, <<16412, 9379, 32767, 32584, 3>>,
       <<15648, 10215, 13099, 32554, 3>>, <<23829, 10921, 12116, 32542, 3>>, <<16965, 22418, 27772, 32409, 11>>, <<17398, 24457, 9340, 32137, 3>>,
       <<30300, 14068, 21408, 32052, 3>>, <<1782, 1245, 10162, 32114, 11>>, <<29926, 12821, 7, 32586, 3>>, <<17984, 6813, 569, 32555, 3>>,
       <<28530, 26763, 25212, 32541, 3>>, <<22426, 28535, 14522, 32409, 11>>, <<20593, 18435, 22227, 32138, 3>>, <<28444, 29770, 31044, 32047, 3>>,
       <<30306, 4639, 14982, 32111, 11>>, <<27671, 2554, 4, 32587, 3>>, <<15392, 10958, 20723, 32555, 3>>, <<18146, 5079, 5600, 32541, 3>>,
       <<924, 23370, 1145, 32409, 11>>, <<10347, 7364, 1133, 32140, 3>>, <<20125, 25469, 9793, 32043, 3>>, <<5697, 18210, 19720, 32108, 11>>,
       <<19330, 23106, 0, 32588, 3>>, <<24864, 30234, 8032, 32556, 3>>, <<11326, 981, 18808, 32540, 3>>, <<21764, 4228, 20408, 32408, 11>>,
       <<13681, 1403, 11624, 32141, 3>>, <<28856, 15738, 23138, 32038, 3>>, <<5722, 26885, 24415, 32105, 11>>, <<1617, 22320, 32759, 32588, 3>>,
       <<10144, 25303, 28030, 32556, 3>>, <<11130, 8547, 32072, 32539, 3>>, <<22134, 29479, 6779, 32408, 11>>, <<9640, 7130, 20939, 32142, 3>>,
       <<15770, 23061, 5568, 32034, 3>>, <<6817, 11332, 29105, 32102, 11>>, <<16467, 19104, 32767, 32589, 3>>, <<26272, 27323, 15194, 32557, 3>>,
       <<17694, 29987, 12611, 32539, 3>>, <<7766, 31842, 25790, 32407, 11>>, <<12037, 14279, 29121, 32143, 3>>, <<19911, 22955, 22518, 32029, 3>>,
       <<14776, 13751, 1057, 32100, 11>>, <<8756, 23745, 5, 32591, 3>>, <<21632, 29529, 2281, 32558, 3>>, <<13034, 19445, 25974, 32538, 3>>,
       <<20202, 15293, 11916, 32407, 11>>, <<25880, 27366, 3392, 32145, 3>>, <<32040, 17907, 8536, 32025, 3>>, <<8793, 7446, 5843, 32097, 11>>,
       <<29723, 27914, 32766, 32591, 3>>, <<1120, 13736, 22053, 32558, 3>>, <<14547, 12389, 6631, 32538, 3>>, <<23105, 17949, 30700, 32406, 11>>,
       <<2978, 25720, 9290, 32146, 3>>, <<1754, 6301, 29205, 32020, 3>>, <<10837, 28160, 10728, 32094, 11>>, <<14659, 15027, 6, 32593, 3>>,
       <<32416, 6192, 8990, 32559, 3>>, <<8579, 15804, 20102, 32537, 3>>, <<14201, 24584, 16598, 32406, 11>>, <<4364, 30066, 14093, 32147, 3>>,
       <<31758, 11065, 18866, 32016, 3>>, <<9022, 10924, 15747, 32091, 11>>, <<5439, 32060, 32766, 32593, 3>>, <<2784, 21377, 28610, 32559, 3>>,
       <<25002, 24304, 869, 32537, 3>>, <<3864, 1088, 2395, 32406, 11>>, <<21139, 19698, 17782, 32148, 3>>, <<4062, 19157, 10412, 32012, 3>>,
       <<20105, 19700, 20930, 32088, 11>>, <<8654, 29767, 32761, 32594, 3>>, <<1536, 17984, 15389, 32560, 3>>, <<14686, 8826, 14459, 32536, 3>>,
       <<14642, 2176, 20853, 32405, 11>>, <<28691, 4815, 20391, 32149, 3>>, <<696, 27552, 3764, 32008, 3>>, <<10481, 18733, 26309, 32085, 11>>,
       <<20664, 12260, 5, 32596, 3>>, <<21408, 15048, 2103, 32561, 3>>, <<19486, 8191, 28095, 32535, 3>>, <<657, 24347, 6433, 32405, 11>>,
       <<19651, 1738, 21948, 32150, 3>>, <<26534, 5997, 31629, 32003, 3>>, <<12035, 3890, 31914, 32082, 11>>, <<7497, 15111, 3, 32597, 3>>,
       <<18848, 26661, 21502, 32561, 3>>, <<7681, 17835, 9027, 32535, 3>>, <<20445, 10447, 24689, 32404, 11>>, <<11701, 32319, 22435, 32151, 3>>,
       <<60, 18293, 24410, 31999, 3>>, <<3511, 3423, 5005, 32080, 11>>, <<29216, 28187, 1, 32598, 3>>, <<32, 32238, 8059, 32562, 3>>,
       <<32639, 17429, 22784, 32534, 3>>, <<26447, 28147, 10080, 32404, 11>>, <<5130, 18962, 21883, 32152, 3>>, <<2943, 17238, 21933, 31991, 3>>,
       <<14623, 12700, 11146, 32077, 11>>, <<15944, 9399, 4, 32599, 3>>, <<19744, 12100, 27313, 32562, 3>>, <<13657, 14326, 3828, 32534, 3>>,
       <<21981, 23484, 28145, 32403, 11>>, <<17008, 11145, 20308, 32153, 3>>, <<20175, 14168, 23018, 31983, 3>>, <<5931, 27765, 17596, 32074, 11>>,
       <<6201, 30820, 32761, 32599, 3>>, <<960, 11575, 13717, 32563, 3>>, <<30937, 10231, 17705, 32533, 3>>, <<974, 14836, 13358, 32403, 11>>,
       <<11788, 22868, 17708, 32154, 3>>, <<16026, 2863, 27785, 31975, 3>>, <<34, 12834, 24382, 32071, 11>>, <<26916, 27280, 32761, 32600, 3>>,
       <<31552, 20893, 53, 32564, 3>>, <<10260, 7381, 31634, 32532, 3>>, <<10219, 20831, 31247, 32402, 11>>, <<2760, 30237, 14119, 32155, 3>>,
       <<26314, 23226, 3270, 31968, 3>>, <<7819, 32182, 31527, 32068, 11>>, <<24248, 16241, 5, 32602, 3>>, <<17664, 8815, 19091, 32564, 3>>,
       <<26254, 22526, 12846, 32532, 3>>, <<7690, 12750, 16279, 32402, 11>>, <<12666, 9518, 9556, 32156, 3>>, <<18005, 15112, 14988, 31960, 3>>,
       <<1661, 21032, 6289, 32066, 11>>, <<10169, 28888, 0, 32603, 3>>, <<28608, 6590, 5278, 32565, 3>>, <<3512, 2795, 26895, 32531, 3>>,
       <<23776, 13205, 1237, 32402, 11>>, <<11921, 23657, 4007, 32157, 3>>, <<32517, 14527, 30368, 31952, 3>>, <<10950, 15761, 14226, 32063, 11>>,
       <<23987, 9183, 3, 32604, 3>>, <<13920, 5529, 24164, 32565, 3>>, <<10930, 13063, 8230, 32531, 3>>, <<32264, 27656, 18881, 32401, 11>>,
       <<5019, 25188, 30275, 32157, 3>>, <<13281, 12733, 16449, 31945, 3>>, <<19689, 23090, 22592, 32060, 11>>, <<16455, 1432, 32761, 32604, 3>>,
       <<24160, 3208, 10202, 32566, 3>>, <<1823, 3391, 22400, 32530, 3>>, <<5689, 19084, 3688, 32401, 11>>, <<16679, 21069, 22822, 32158, 3>>,
       <<8048, 2884, 6127, 31938, 3>>, <<3046, 20932, 31409, 32057, 11>>, <<27309, 10805, 6, 32606, 3>>, <<17824, 30876, 28948, 32566, 3>>,
       <<29616, 32458, 3847, 32530, 3>>, <<10215, 18207, 21179, 32400, 11>>, <<13071, 15682, 14457, 32159, 3>>, <<26335, 22425, 31888, 31930, 3>>,
       <<709, 24178, 7929, 32055, 11>>, <<32273, 19501, 32761, 32606, 3>>, <<28640, 20000, 14840, 32567, 3>>, <<2032, 12139, 18138, 32529, 3>>,
       <<28466, 18463, 5844, 32400, 11>>, <<396, 2519, 5157, 32160, 3>>, <<24825, 8450, 28536, 31923, 3>>, <<6317, 20026, 17708, 32052, 11>>,
       <<7282, 10402, 32765, 32607, 3>>, <<15168, 18551, 669, 32568, 3>>, <<15499, 17156, 32479, 32528, 3>>, <<20346, 13578, 23202, 32399, 11>>,
       <<18487, 25568, 27733, 32160, 3>>, <<3964, 30626, 28514, 31916, 3>>, <<14097, 992, 27997, 32049, 11>>, <<22846, 2670, 3, 32609, 3>>,
       <<25600, 26330, 19195, 32568, 3>>, <<13013, 28329, 14111, 32528, 3>>, <<23533, 14921, 7726, 32399, 11>>, <<1504, 10729, 16654, 32161, 3>>,
       <<26756, 9300, 31908, 31909, 3>>, <<9449, 31317, 6044, 32047, 11>>, <<22297, 15270, 3, 32610, 3>>, <<12288, 12276, 4879, 32569, 3>>,
       <<12735, 25937, 28575, 32527, 3>>, <<24054, 25787, 24958, 32398, 11>>, <<12815, 9671, 4695, 32162, 3>>, <<6960, 32664, 5977, 31903, 3>>,
       <<20495, 17825, 17405, 32044, 11>>, <<30134, 70, 1, 32611, 3>>, <<14112, 31742, 23257, 32569, 3>>, <<9095, 3474, 10334, 32527, 3>>,
       <<31832, 25531, 9364, 32398, 11>>, <<19394, 29037, 24639, 32162, 3>>, <<6542, 413, 16220, 31896, 3>>, <<7775, 5715, 29327, 32041, 11>>,
       <<20452, 13088, 32764, 32611, 3>>, <<22624, 7794, 8796, 32570, 3>>, <<14899, 20555, 24922, 32526, 3>>, <<4037, 20156, 26482, 32397, 11>>,
       <<32125, 29681, 10965, 32163, 3>>, <<2814, 19282, 29838, 31889, 3>>, <<22347, 14942, 9057, 32039, 11>>, <<16541, 29636, 32763, 32612, 3>>,
       <<29120, 29647, 27033, 32570, 3>>, <<21225, 3713, 6802, 32526, 3>>, <<14636, 25392, 10775, 32397, 11>>, <<22586, 280, 29226, 32163, 3>>,
       <<9510, 2814, 14002, 31883, 3>>, <<30070, 8334, 22147, 32036, 11>>, <<28530, 16497, 7, 32614, 3>>, <<20800, 19714, 12439, 32571, 3>>,
       <<11768, 13179, 21504, 32525, 3>>, <<27054, 26952, 27778, 32396, 11>>, <<32418, 1136, 13901, 32164, 3>>, <<15093, 26123, 1405, 31877, 3>>,
       <<19991, 22876, 3074, 32034, 11>>, <<895, 22244, 32763, 32614, 3>>, <<19104, 29940, 30529, 32571, 3>>, <<26370, 7742, 3513, 32525, 3>>,
       <<11512, 8498, 11975, 32396, 11>>, <<6413, 13641, 30521, 32164, 3>>, <<5733, 18155, 17269, 31869, 3>>, <<3087, 6750, 17389, 32031, 11>>,
       <<14829, 21648, 32767, 32615, 3>>, <<2240, 25313, 15790, 32572, 3>>, <<4655, 7780, 18343, 32524, 3>>, <<172, 17416, 28884, 32395, 11>>,
       <<5697, 5163, 13584, 32165, 3>>, <<19625, 274, 5298, 31857, 3>>, <<16997, 16147, 32335, 32028, 11>>, <<18610, 22653, 32759, 32616, 3>>,
       <<18560, 4493, 975, 32573, 3>>, <<470, 25918, 473, 32524, 3>>, <<21824, 12450, 12986, 32395, 11>>, <<13311, 13842, 28624, 32165, 3>>,
       <<24781, 16692, 32727, 31844, 3>>, <<22276, 19540, 15157, 32026, 11>>, <<28116, 24841, 32765, 32617, 3>>, <<29216, 15877, 18865, 32573, 3>>,
       <<12806, 29486, 15426, 32523, 3>>, <<2644, 15420, 29806, 32394, 11>>, <<6704, 22617, 10130, 32166, 3>>, <<30412, 24476, 887, 31833, 3>>,
       <<15415, 28945, 31402, 32023, 11>>, <<3708, 6885, 32762, 32618, 3>>, <<32384, 4378, 3913, 32574, 3>>, <<9639, 19525, 30447, 32522, 3>>,
       <<20146, 17931, 13822, 32394, 11>>, <<29127, 759, 23641, 32166, 3>>, <<25145, 17215, 8315, 31821, 3>>, <<11527, 2491, 15546, 32021, 11>>,
       <<15107, 24916, 32765, 32619, 3>>, <<5504, 13895, 21663, 32574, 3>>, <<27137, 31903, 12758, 32522, 3>>, <<1706, 21934, 30564, 32393, 11>>,
       <<12970, 26938, 3638, 32167, 3>>, <<11117, 28606, 21992, 31809, 3>>, <<22395, 8441, 365, 32019, 11>>, <<31651, 10345, 32764, 32620, 3>>,
       <<10016, 1425, 6574, 32575, 3>>, <<32749, 23350, 27903, 32521, 3>>, <<22086, 30099, 14504, 32393, 11>>, <<7413, 20320, 15667, 32167, 3>>,
       <<21805, 9407, 9239, 31798, 3>>, <<26351, 29452, 18637, 32016, 11>>, <<24204, 20881, 32762, 32621, 3>>, <<9504, 26945, 24183, 32575, 3>>,
       <<8473, 12280, 10343, 32521, 3>>, <<6623, 3452, 31179, 32392, 11>>, <<7057, 18076, 26973, 32167, 3>>, <<28149, 4082, 2713, 31787, 3>>,
       <<30105, 28277, 4836, 32014, 11>>, <<15861, 19630, 0, 32623, 3>>, <<14688, 7033, 8961, 32576, 3>>, <<25785, 29191, 25609, 32520, 3>>,
       <<27910, 14783, 15049, 32392, 11>>, <<506, 6477, 4803, 32168, 3>>, <<24073, 24185, 2273, 31776, 3>>, <<31338, 14161, 24506, 32011, 11>>,
       <<7014, 27137, 32760, 32623, 3>>, <<21312, 1430, 26431, 32576, 3>>, <<17077, 25490, 8178, 32520, 3>>, <<32146, 17946, 31664, 32391, 11>>,
       <<13553, 27531, 14697, 32168, 3>>, <<14808, 18306, 8099, 31765, 3>>, <<25643, 10228, 12118, 32009, 11>>, <<19560, 4698, 1, 32625, 3>>,
       <<1664, 14743, 11073, 32577, 3>>, <<21983, 9500, 23570, 32519, 3>>, <<1825, 23574, 15475, 32391, 11>>, <<31604, 9975, 23910, 32168, 3>>,
       <<32219, 22419, 19812, 31754, 3>>, <<6180, 21562, 447, 32007, 11>>, <<15205, 10277, 2, 32626, 3>>, <<6752, 10240, 28412, 32577, 3>>,
       <<1498, 28649, 6260, 32519, 3>>, <<21373, 13911, 32032, 32390, 11>>, <<19732, 18436, 32445, 32168, 3>>, <<5784, 14089, 4838, 31744, 3>>,
       <<9268, 2580, 22269, 32004, 11>>, <<28463, 3761, 32765, 32626, 3>>, <<16768, 10851, 12912, 32578, 3>>, <<27879, 5887, 21786, 32518, 3>>,
       <<32286, 8375, 15800, 32390, 11>>, <<24634, 29579, 7547, 32169, 3>>, <<4407, 12116, 24520, 31723, 3>>, <<4577, 21713, 12052, 32002, 11>>,
       <<415, 28703, 0, 32628, 3>>, <<16480, 27033, 30117, 32578, 3>>, <<9653, 7739, 4602, 32518, 3>>, <<28687, 17754, 32309, 32389, 11>>,
       <<15403, 15999, 14768, 32169, 3>>, <<11645, 23625, 18191, 31703, 3>>, <<9929, 32156, 2571, 32000, 11>>, <<19323, 19889, 2, 32629, 3>>,
       <<14944, 8220, 14487, 32579, 3>>, <<19810, 29794, 20250, 32517, 3>>, <<11652, 20374, 16031, 32389, 11>>, <<1823, 4562, 21348, 32169, 3>>,
       <<26057, 6603, 23569, 31683, 3>>, <<18901, 7535, 20432, 31995, 11>>, <<14944, 13351, 1, 32630, 3>>, <<25568, 13154, 31556, 32579, 3>>,
       <<31447, 23926, 3196, 32517, 3>>, <<31969, 26439, 32504, 32388, 11>>, <<12125, 5043, 27298, 32169, 3>>, <<1035, 28654, 7783, 31664, 3>>,
       <<13307, 10209, 4443, 31991, 11>>, <<23832, 12785, 32765, 32630, 3>>, <<19072, 19715, 15789, 32580, 3>>, <<24755, 22662, 18975, 32516, 3>>,
       <<2021, 28572, 16194, 32388, 11>>, <<23871, 30653, 32629, 32169, 3>>, <<11878, 24970, 3481, 31645, 3>>, <<29461, 15252, 22721, 31986, 11>>,
       <<13312, 31750, 32766, 32631, 3>>, <<31072, 15002, 32727, 32580, 3>>, <<5565, 16380, 2047, 32516, 3>>, <<27663, 13770, 32635, 32387, 11>>,
       <<28509, 28826, 4587, 32170, 3>>, <<5150, 29445, 10385, 31626, 3>>, <<2101, 973, 9738, 31982, 11>>, <<4701, 19818, 7, 32633, 3>>,
       <<352, 30673, 16834, 32581, 3>>, <<8930, 16098, 17947, 32515, 3>>, <<21285, 15648, 16291, 32387, 11>>, <<27770, 27581, 8718, 32170, 3>>,
       <<1749, 26947, 23946, 31599, 3>>, <<29845, 15425, 31035, 31977, 11>>, <<24795, 28385, 32759, 32633, 3>>, <<25472, 5074, 864, 32582, 3>>,
       <<30377, 27466, 1155, 32515, 3>>, <<4863, 14930, 32716, 32386, 11>>, <<31, 6562, 12262, 32170, 3>>, <<23574, 23841, 17393, 31563, 3>>,
       <<22654, 12758, 21083, 31973, 11>>, <<23091, 7213, 32761, 32634, 3>>, <<19904, 21369, 17604, 32582, 3>>, <<9449, 9847, 17187, 32514, 3>>,
       <<978, 11929, 16355, 32386, 11>>, <<12882, 12887, 15233, 32170, 3>>, <<28341, 25383, 32133, 31527, 3>>, <<11398, 18611, 12654, 31969, 11>>,
       <<32558, 2797, 1, 32636, 3>>, <<17312, 6600, 1515, 32583, 3>>, <<31596, 12626, 511, 32514, 3>>, <<15957, 4662, 32751, 32385, 11>>,
       <<22519, 15974, 17641, 32170, 3>>, <<11091, 10642, 2792, 31493, 3>>, <<24433, 31969, 5752, 31965, 11>>, <<9008, 29549, 32764, 32636, 3>>,
       <<5536, 20458, 18122, 32583, 3>>, <<16728, 17932, 16673, 32513, 3>>, <<11688, 22901, 16378, 32385, 11>>, <<18624, 25832, 19495, 32170, 3>>,
       <<107, 4256, 23385, 31429, 3>>, <<9183, 26694, 381, 31961, 11>>, <<16569, 21741, 6, 32638, 3>>, <<28032, 11180, 1904, 32584, 3>>,
       <<13482, 20915, 124, 32513, 3>>, <<19512, 21274, 32762, 32384, 11>>, <<248, 4399, 20808, 32170, 3>>, <<17851, 32363, 17109, 31362, 3>>,
       <<18351, 17188, 29311, 31956, 11>>, <<4810, 29515, 32760, 32638, 3>>, <<10112, 23313, 18377, 32584, 3>>, <<25912, 18456, 16419, 32512, 3>>,
       <<2270, 9773, 16387, 32384, 11>>, <<6166, 18014, 21587, 32170, 3>>, <<10450, 7212, 10325, 31233, 3>>, <<30112, 27125, 27007, 31952, 11>>,
       <<20912, 7461, 24582, 32639, 3>>, <<16128, 14185, 30702, 32584, 3>>, <<17833, 28937, 4094, 32512, 3>>, <<10580, 28909, 4092, 32384, 11>>,
       <<24059, 10867, 21829, 32170, 3>>, <<26306, 30507, 8093, 30976, 3>>, <<14936, 12615, 26268, 31949, 11>> >>

\* the double j = 0 .. 6 of row i of the table
Cij(i, j) == libm("CIJ", i, j, j)

\* the row of u: 256 * u to the nearest whole number, less 16
CijRow(u) == LowBits(fma(u, TWO8, TWO52)) - 16

\* the polynomials: of v = u * u below 1 / 16, and of the table from its
\* coefficient 2 or 3
AtanPoly(v) ==
    fma(v, fma(v, fma(v, fma(v, fma(v, ATAN_D13, ATAN_D11), ATAN_D9), ATAN_D7), ATAN_D5), ATAN_D3)

CijPoly3(v, i) == fma(v, fma(v, fma(v, Cij(i, 6), Cij(i, 5)), Cij(i, 4)), Cij(i, 3))

CijPoly2(v, i) == fma(v, CijPoly3(v, i), Cij(i, 2))

\* what the subtraction w - u and the addition w + u, which gave t2, left
SubLeft(w, u, t2) ==
    IF fgt(w, FloatAbs(u)) THEN fsub(fsub(w, t2), u) ELSE fsub(w, fadd(u, t2))

AddLeft(w, u, t2) ==
    IF fgt(w, FloatAbs(u)) THEN fadd(fsub(w, t2), u) ELSE fadd(fsub(u, t2), w)

\* below 1 / 16, zz = u^3 * AtanPoly(u * u): pi / 2 - atan, pi / 2 + atan
\* and pi - atan
atan2_less(w, w1, u, du, zz, t2) ==
    fadd(fsub(fsub(fadd(SubLeft(w, u, t2), w1), du), zz), t2)

atan2_more(u, du, zz, t2) ==
    fadd(fadd(fadd(fadd(AddLeft(HPI, u, t2), HPI1), du), zz), t2)

atan2_small(quadrant, u, du, v) ==
    IF quadrant = 1 THEN fadd(u, fma(fmul(u, v), AtanPoly(v), du))
    ELSE IF quadrant = 2
    THEN atan2_less(HPI, HPI1, u, du, fmul(fmul(u, v), AtanPoly(v)), fsub(HPI, u))
    ELSE IF quadrant = 3
    THEN atan2_more(u, du, fmul(fmul(u, v), AtanPoly(v)), fadd(u, HPI))
    ELSE atan2_less(OPI, OPI1, u, du, fmul(fmul(u, v), AtanPoly(v)), fsub(OPI, u))

\* from 1 / 16, in row i of the table: atan itself, with v and dv the two
\* parts of what u + du is beyond the point of the row
atan2_row_dv(v, dv, i) ==
    fadd(fma(v, Cij(i, 2), fma(dv, Cij(i, 2), fmul(fmul(v, v), CijPoly3(v, i)))), Cij(i, 1))

atan2_row_v(t3, du, v, i) ==
    atan2_row_dv(v, IF fgt(FloatAbs(t3), FloatAbs(du)) THEN fadd(fsub(t3, v), du)
                    ELSE fadd(fsub(du, v), t3), i)

atan2_row_t3(t3, du, i) == atan2_row_v(t3, du, fadd(du, t3), i)

\* and the other three, with v all that u + du is beyond the point
atan2_row_rest(quadrant, v, i) ==
    IF quadrant = 2 THEN fadd(fsub(HPI, Cij(i, 1)), fnma(v, CijPoly2(v, i), HPI1))
    ELSE IF quadrant = 3 THEN fadd(fadd(HPI, Cij(i, 1)), fma(v, CijPoly2(v, i), HPI1))
    ELSE fadd(fsub(OPI, Cij(i, 1)), fnma(v, CijPoly2(v, i), OPI1))

atan2_row(quadrant, u, du, i) ==
    IF quadrant = 1 THEN atan2_row_t3(fsub(u, Cij(i, 0)), du, i)
    ELSE atan2_row_rest(quadrant, fadd(fsub(u, Cij(i, 0)), du), i)

atan2_du(quadrant, u, du) ==
    IF flt(u, INV16) THEN atan2_small(quadrant, u, du, fmul(u, u))
    ELSE atan2_row(quadrant, u, du, CijRow(u))

\* u = num / den and du = ((num - den * u) - what den * u left) / den
atan2_u(quadrant, num, den, u) ==
    atan2_du(quadrant, u,
             fdiv(fsub(fsub(num, fmul(den, u)), fms(den, u, fmul(den, u))), den))

\* quadrant 1: x > 0 and abs(y) < abs(x); 2: x > 0 and abs(x) <= abs(y);
\* 3: x < 0 and abs(x) < abs(y); 4: x < 0 and abs(y) <= abs(x)
atan2_scaled(x, ax, ay) ==
    IF fgt(ax, ay)
    THEN atan2_u(IF x.s = 0 THEN 1 ELSE 4, ay, ax, fdiv(ay, ax))
    ELSE atan2_u(IF x.s = 0 THEN 2 ELSE IF fgt(ay, ax) THEN 3 ELSE 4, ax, ay, fdiv(ax, ay))

\* abs(x) and abs(y) are brought in range together: times 2^500 when one is
\* below 2^-500, and then times 2^-500 when one is above 2^500
ScaledUp(ax, ay, z) ==
    IF flt(ax, TWOM500) \/ flt(ay, TWOM500) THEN fmul(z, TWO500) ELSE z

ScaledDown(ax, ay, z) ==
    IF fgt(ax, TWO500) \/ fgt(ay, TWO500) THEN fmul(z, TWOM500) ELSE z

atan2_up(x, ax, ay) == atan2_scaled(x, ScaledDown(ax, ay, ax), ScaledDown(ax, ay, ay))

\* atan2(y, x) of finite y and x that are not zero: where the exponents are
\* 57 or more apart, pi / 2, or the quotient for x > 0 and pi for x < 0
__ieee754_atan2(y, x) ==
    IF ExpField(y) - ExpField(x) >= 57 THEN CopySign(HPI, y)
    ELSE IF ExpField(x) - ExpField(y) >= 57
    THEN (IF x.s = 0 THEN CopySign(fdiv(FloatAbs(y), FloatAbs(x)), y) ELSE CopySign(OPI, y))
    ELSE CopySign(atan2_up(x, ScaledUp(FloatAbs(x), FloatAbs(y), FloatAbs(x)),
                           ScaledUp(FloatAbs(x), FloatAbs(y), FloatAbs(y))), y)

(***************************************************************************)
(* pow (e_pow.c).  The logarithm of x in two parts, from a table of 128    *)
(* intervals of the fraction and a polynomial; times y, in two parts; and  *)
(* of that the exponential, from a table of the 128 128th powers of 2 and  *)
(* a polynomial.                                                           *)
(***************************************************************************)
POW_OFF == <<0, 0, 21844, 32564, 3>>

LN2HI == asdouble(<<14336, 32244, 14603, 32561, 3>>)

LN2LO == asdouble(<<26416, 10126, 19806, 26999, 3>>)

POW_A0 == asdouble(<<0, 0, 0, 32512, 11>>)

POW_A1 == asdouble(<<21856, 10922, 21845, 32554, 11>>)

POW_A2 == asdouble(<<6, 0, 0, 32512, 3>>)

POW_A3 == asdouble(<<21838, 12978, 26214, 32588, 3>>)

POW_A4 == asdouble(<<9338, 10835, 21845, 32554, 11>>)

POW_A5 == asdouble(<<17897, 13968, 9582, 32658, 11>>)

POW_A6 == asdouble(<<16323, 5708, 174, 32640, 3>>)

INVLN2N == asdouble(<<766, 19031, 21789, 824, 4>>)

EXP_SHIFT == asdouble(<<0, 0, 0, 6592, 4>>)

NEGLN2HIN == asdouble(<<0, 32244, 14603, 31665, 11>>)

NEGLN2LON == asdouble(<<15162, 31036, 24170, 26727, 11>>)

EXP_C2 == asdouble(<<32189, 32767, 32767, 32511, 3>>)

EXP_C3 == asdouble(<<21564, 10922, 21845, 32298, 3>>)

EXP_C4 == asdouble(<<11153, 7726, 21847, 32042, 3>>)

EXP_C5 == asdouble(<<20503, 20297, 17477, 31752, 3>>)

TWO1009 == asdouble(<<0, 0, 0, 30720, 7>>)

TWOM1022 == asdouble(<<0, 0, 0, 128, 0>>)

\* for each interval i = 0 .. 127: 1 / c for a c in it, and log(c) in two
\* parts
POW_LOG_TAB ==
    << <<0, 0, 0, 32693, 3>>, <<18432, 25971, 12811, 32433, 11>>, <<22144, 20590, 20624, 26581, 3>>,
       <<0, 0, 0, 32692, 3>>, <<2048, 32432, 18166, 32430, 11>>, <<30496, 12737, 5155, 26853, 11>>,
       <<0, 0, 0, 32691, 3>>, <<22528, 11914, 23004, 32427, 11>>, <<20589, 11116, 2707, 26907, 11>>,
       <<0, 0, 0, 32690, 3>>, <<30720, 3675, 27318, 32424, 11>>, <<26581, 15712, 5010, 26420, 11>>,
       <<0, 0, 0, 32689, 3>>, <<30720, 10990, 31102, 32421, 11>>, <<16096, 9810, 28070, 26656, 11>>,
       <<0, 0, 0, 32688, 3>>, <<24576, 1080, 1583, 32419, 11>>, <<1228, 4249, 24765, 26782, 3>>,
       <<0, 0, 0, 32687, 3>>, <<10240, 3341, 4290, 32416, 11>>, <<2874, 23300, 3023, 26338, 3>>,
       <<0, 0, 0, 32686, 3>>, <<18432, 10962, 6449, 32413, 11>>, <<5216, 3235, 18202, 26885, 3>>,
       <<0, 0, 0, 32685, 3>>, <<0, 13617, 8054, 32410, 11>>, <<146, 10635, 25911, 26922, 3>>,
       <<0, 0, 0, 32684, 3>>, <<8192, 30146, 9098, 32407, 11>>, <<11224, 13166, 27770, 26931, 3>>,
       <<0, 0, 0, 32683, 3>>, <<2048, 10173, 9576, 32404, 11>>, <<12351, 28063, 10322, 26798, 3>>,
       <<0, 0, 0, 32683, 3>>, <<2048, 10173, 9576, 32404, 11>>, <<12351, 28063, 10322, 26798, 3>>,
       <<0, 0, 0, 32682, 3>>, <<30720, 30622, 9479, 32401, 11>>, <<23158, 20647, 26768, 26802, 11>>,
       <<0, 0, 0, 32681, 3>>, <<6144, 723, 8803, 32398, 11>>, <<21508, 20942, 16113, 26877, 11>>,
       <<0, 0, 0, 32680, 3>>, <<10240, 22359, 7538, 32395, 11>>, <<10480, 26373, 32536, 26872, 3>>,
       <<0, 0, 0, 32679, 3>>, <<18432, 29532, 5679, 32392, 11>>, <<23142, 31242, 8979, 26933, 11>>,
       <<0, 0, 0, 32678, 3>>, <<4096, 17639, 3219, 32389, 11>>, <<782, 32232, 12217, 26723, 11>>,
       <<0, 0, 0, 32677, 3>>, <<20480, 10601, 150, 32386, 11>>, <<11647, 15848, 23266, 26497, 11>>,
       <<0, 0, 0, 32677, 3>>, <<20480, 10601, 150, 32386, 11>>, <<11647, 15848, 23266, 26497, 11>>,
       <<0, 0, 0, 32676, 3>>, <<16384, 23228, 25697, 32381, 11>>, <<15495, 22322, 23722, 26730, 3>>,
       <<0, 0, 0, 32675, 3>>, <<24576, 6072, 17079, 32375, 11>>, <<12068, 14605, 6878, 26969, 3>>,
       <<0, 0, 0, 32674, 3>>, <<28672, 23637, 7197, 32369, 11>>, <<32528, 10367, 15677, 26809, 11>>,
       <<0, 0, 0, 32673, 3>>, <<16384, 22175, 28805, 32362, 11>>, <<26651, 30612, 27206, 26893, 3>>,
       <<0, 0, 0, 32672, 3>>, <<8192, 3893, 16351, 32356, 11>>, <<1076, 20799, 25917, 26939, 3>>,
       <<0, 0, 0, 32672, 3>>, <<8192, 3893, 16351, 32356, 11>>, <<1076, 20799, 25917, 26939, 3>>,
       <<0, 0, 0, 32671, 3>>, <<4096, 26715, 2585, 32350, 11>>, <<14223, 25367, 15040, 26826, 3>>,
       <<0, 0, 0, 32670, 3>>, <<16384, 7425, 20261, 32343, 11>>, <<4198, 32667, 14732, 26066, 3>>,
       <<0, 0, 0, 32669, 3>>, <<12288, 16325, 3824, 32337, 11>>, <<16874, 14477, 12691, 26924, 11>>,
       <<0, 0, 0, 32669, 3>>, <<12288, 16325, 3824, 32337, 11>>, <<16874, 14477, 12691, 26924, 11>>,
       <<0, 0, 0, 32668, 3>>, <<20480, 14824, 18794, 32330, 11>>, <<21731, 2435, 18276, 26966, 11>>,
       <<0, 0, 0, 32667, 3>>, <<20480, 19009, 32385, 32323, 11>>, <<31241, 32695, 30461, 26973, 3>>,
       <<0, 0, 0, 32666, 3>>, <<24576, 1057, 11812, 32317, 11>>, <<19032, 25766, 28225, 26974, 3>>,
       <<0, 0, 0, 32666, 3>>, <<24576, 1057, 11812, 32317, 11>>, <<19032, 25766, 28225, 26974, 3>>,
       <<0, 0, 0, 32665, 3>>, <<20480, 20019, 22591, 32310, 11>>, <<25190, 18277, 4522, 26759, 11>>,
       <<0, 0, 0, 32664, 3>>, <<4096, 24911, 31937, 32303, 11>>, <<20537, 15904, 30990, 26868, 11>>,
       <<0, 0, 0, 32664, 3>>, <<4096, 24911, 31937, 32303, 11>>, <<20537, 15904, 30990, 26868, 11>>,
       <<0, 0, 0, 32663, 3>>, <<12288, 18243, 7063, 32297, 11>>, <<23439, 8206, 31278, 26886, 11>>,
       <<0, 0, 0, 32662, 3>>, <<0, 22935, 13485, 32290, 11>>, <<30780, 17002, 13061, 26808, 3>>,
       <<0, 0, 0, 32662, 3>>, <<0, 22935, 13485, 32290, 11>>, <<30780, 17002, 13061, 26808, 3>>,
       <<0, 0, 0, 32661, 3>>, <<4096, 16445, 18416, 32283, 11>>, <<21562, 6734, 25113, 26507, 3>>,
       <<0, 0, 0, 32660, 3>>, <<28672, 28735, 21835, 32276, 11>>, <<17416, 12003, 13504, 26916, 11>>,
       <<0, 0, 0, 32659, 3>>, <<24576, 10846, 23723, 32269, 11>>, <<9110, 12323, 656, 26996, 11>>,
       <<0, 0, 0, 32659, 3>>, <<24576, 10846, 23723, 32269, 11>>, <<9110, 12323, 656, 26996, 11>>,
       <<0, 0, 0, 32658, 3>>, <<4096, 31137, 24057, 32262, 11>>, <<23540, 4560, 9818, 26707, 3>>,
       <<0, 0, 0, 32658, 3>>, <<4096, 31137, 24057, 32262, 11>>, <<23540, 4560, 9818, 26707, 3>>,
       <<0, 0, 0, 32657, 3>>, <<24576, 25527, 12868, 32255, 11>>, <<13298, 14662, 21841, 26923, 11>>,
       <<0, 0, 0, 32656, 3>>, <<0, 23638, 7197, 32241, 11>>, <<60, 21984, 20656, 26961, 3>>,
       <<0, 0, 0, 32656, 3>>, <<0, 23638, 7197, 32241, 11>>, <<60, 21984, 20656, 26961, 3>>,
       <<0, 0, 0, 32655, 3>>, <<16384, 7863, 31058, 32226, 11>>, <<15878, 12479, 12637, 26856, 11>>,
       <<0, 0, 0, 32654, 3>>, <<24576, 29845, 18868, 32212, 11>>, <<10952, 20663, 25815, 26921, 3>>,
       <<0, 0, 0, 32654, 3>>, <<24576, 29845, 18868, 32212, 11>>, <<10952, 20663, 25815, 26921, 3>>,
       <<0, 0, 0, 32653, 3>>, <<8192, 11363, 3351, 32198, 11>>, <<22120, 6750, 28837, 26779, 3>>,
       <<0, 0, 0, 32653, 3>>, <<8192, 11363, 3351, 32198, 11>>, <<22120, 6750, 28837, 26779, 3>>,
       <<0, 0, 0, 32652, 3>>, <<24576, 5578, 17226, 32183, 11>>, <<29658, 4710, 23775, 26932, 11>>,
       <<0, 0, 0, 32651, 3>>, <<8192, 32268, 27676, 32168, 11>>, <<24151, 17292, 2413, 26872, 3>>,
       <<0, 0, 0, 32651, 3>>, <<8192, 32268, 27676, 32168, 11>>, <<24151, 17292, 2413, 26872, 3>>,
       <<0, 0, 0, 32650, 3>>, <<24576, 11319, 1886, 32154, 11>>, <<5087, 6642, 31595, 26978, 3>>,
       <<0, 0, 0, 32650, 3>>, <<24576, 11319, 1886, 32154, 11>>, <<5087, 6642, 31595, 26978, 3>>,
       <<0, 0, 0, 32649, 3>>, <<0, 23879, 5339, 32139, 11>>, <<8969, 27935, 29049, 26787, 3>>,
       <<0, 0, 0, 32648, 3>>, <<0, 35, 10435, 32120, 11>>, <<3729, 1645, 26234, 26986, 3>>,
       <<0, 0, 0, 32648, 3>>, <<0, 35, 10435, 32120, 11>>, <<3729, 1645, 26234, 26986, 3>>,
       <<0, 0, 0, 32647, 3>>, <<0, 25139, 2933, 32090, 11>>, <<28748, 19372, 2539, 26852, 3>>,
       <<0, 0, 0, 32647, 3>>, <<0, 25139, 2933, 32090, 11>>, <<28748, 19372, 2539, 26852, 3>>,
       <<0, 0, 0, 32646, 3>>, <<16384, 27749, 20835, 32059, 11>>, <<8686, 27109, 28952, 26983, 11>>,
       <<0, 0, 0, 32646, 3>>, <<16384, 27749, 20835, 32059, 11>>, <<8686, 27109, 28952, 26983, 11>>,
       <<0, 0, 0, 32645, 3>>, <<16384, 29693, 31262, 32028, 11>>, <<32426, 27213, 2783, 26536, 3>>,
       <<0, 0, 0, 32645, 3>>, <<16384, 29693, 31262, 32028, 11>>, <<32426, 27213, 2783, 26536, 3>>,
       <<0, 0, 0, 32644, 3>>, <<0, 7408, 2668, 31996, 11>>, <<2532, 30972, 153, 26956, 11>>,
       <<0, 0, 0, 32644, 3>>, <<0, 7408, 2668, 31996, 11>>, <<2532, 30972, 153, 26956, 11>>,
       <<0, 0, 0, 32643, 3>>, <<0, 4011, 25708, 31933, 11>>, <<9785, 10229, 13650, 26948, 11>>,
       <<0, 0, 0, 32642, 3>>, <<0, 25080, 674, 31870, 11>>, <<9884, 28071, 31219, 26360, 11>>,
       <<0, 0, 0, 32642, 3>>, <<0, 25080, 674, 31870, 11>>, <<9884, 28071, 31219, 26360, 11>>,
       <<0, 0, 0, 32641, 3>>, <<0, 22048, 169, 31743, 11>>, <<16612, 7092, 2300, 26831, 11>>,
       <<0, 0, 0, 32641, 3>>, <<0, 22048, 169, 31743, 11>>, <<16612, 7092, 2300, 26831, 11>>,
       <<0, 0, 0, 32640, 3>>, <<0, 0, 0, 0, 0>>, <<0, 0, 0, 0, 0>>,
       <<0, 0, 0, 32640, 3>>, <<0, 0, 0, 0, 0>>, <<0, 0, 0, 0, 0>>,
       <<0, 0, 0, 32638, 3>>, <<0, 27410, 16469, 31744, 3>>, <<11240, 13114, 7598, 26758, 11>>,
       <<0, 0, 0, 32636, 3>>, <<0, 12583, 345, 31873, 3>>, <<30674, 3525, 29036, 26910, 11>>,
       <<0, 0, 0, 32634, 3>>, <<0, 20882, 9364, 31938, 3>>, <<3124, 25780, 744, 26965, 11>>,
       <<0, 0, 0, 32632, 3>>, <<16384, 5070, 1398, 32002, 3>>, <<22355, 14819, 18177, 26632, 3>>,
       <<0, 0, 0, 32630, 3>>, <<0, 10332, 6843, 32035, 3>>, <<32040, 27515, 22989, 26976, 11>>,
       <<0, 0, 0, 32628, 3>>, <<16384, 10559, 21160, 32068, 3>>, <<9853, 8372, 26199, 26827, 11>>,
       <<0, 0, 0, 32626, 3>>, <<16384, 7099, 11727, 32102, 3>>, <<10247, 4016, 9161, 26835, 11>>,
       <<0, 0, 0, 32625, 3>>, <<16384, 13, 10439, 32119, 3>>, <<15227, 8082, 17657, 26736, 11>>,
       <<0, 0, 0, 32623, 3>>, <<24576, 8844, 23791, 32140, 3>>, <<7835, 11291, 18805, 26921, 11>>,
       <<0, 0, 0, 32621, 3>>, <<24576, 20387, 30678, 32157, 3>>, <<20183, 19382, 8570, 26982, 3>>,
       <<0, 0, 0, 32619, 3>>, <<8192, 6959, 9577, 32175, 3>>, <<7454, 30906, 9240, 26979, 11>>,
       <<0, 0, 0, 32618, 3>>, <<16384, 5589, 844, 32184, 3>>, <<27954, 21307, 31286, 26464, 3>>,
       <<0, 0, 0, 32616, 3>>, <<16384, 15026, 19833, 32201, 3>>, <<18394, 30074, 17776, 26904, 3>>,
       <<0, 0, 0, 32614, 3>>, <<24576, 7002, 11042, 32219, 3>>, <<26853, 22510, 16896, 26780, 11>>,
       <<0, 0, 0, 32613, 3>>, <<16384, 888, 8544, 32228, 3>>, <<11475, 3253, 6983, 26930, 3>>,
       <<0, 0, 0, 32611, 3>>, <<8192, 1556, 7398, 32246, 3>>, <<17888, 24524, 418, 26990, 11>>,
       <<0, 0, 0, 32610, 3>>, <<24576, 29623, 8772, 32255, 3>>, <<2813, 8002, 21337, 26921, 11>>,
       <<0, 0, 0, 32608, 3>>, <<24576, 1103, 24122, 32264, 3>>, <<2034, 7258, 15843, 26895, 3>>,
       <<0, 0, 0, 32607, 3>>, <<28672, 31815, 10413, 32269, 3>>, <<6452, 2161, 7737, 26981, 3>>,
       <<0, 0, 0, 32605, 3>>, <<0, 6413, 17796, 32278, 3>>, <<13473, 5891, 30131, 26652, 3>>,
       <<0, 0, 0, 32604, 3>>, <<4096, 24619, 6130, 32283, 3>>, <<29321, 18070, 16032, 26161, 3>>,
       <<0, 0, 0, 32602, 3>>, <<12288, 1639, 17654, 32292, 3>>, <<13944, 10747, 3557, 26924, 3>>,
       <<0, 0, 0, 32601, 3>>, <<12288, 18755, 8087, 32297, 3>>, <<32199, 19154, 20387, 26929, 3>>,
       <<0, 0, 0, 32599, 3>>, <<4096, 32024, 23866, 32306, 3>>, <<11896, 22648, 15916, 26830, 3>>,
       <<0, 0, 0, 32598, 3>>, <<28672, 5866, 16458, 32311, 3>>, <<8673, 19256, 17975, 26920, 11>>,
       <<0, 0, 0, 32597, 3>>, <<20480, 2696, 9782, 32316, 3>>, <<17157, 24866, 6209, 26851, 11>>,
       <<0, 0, 0, 32595, 3>>, <<0, 22130, 31423, 32325, 3>>, <<11473, 21970, 30034, 26681, 11>>,
       <<0, 0, 0, 32594, 3>>, <<0, 14830, 26987, 32330, 3>>, <<32623, 12609, 18593, 26687, 3>>,
       <<0, 0, 0, 32592, 3>>, <<24576, 30997, 20404, 32340, 3>>, <<8553, 8364, 18701, 26947, 11>>,
       <<0, 0, 0, 32591, 3>>, <<20480, 11959, 18273, 32345, 3>>, <<25002, 7513, 22069, 26721, 11>>,
       <<0, 0, 0, 32590, 3>>, <<24576, 28791, 16924, 32350, 3>>, <<4790, 12968, 12049, 26986, 11>>,
       <<0, 0, 0, 32589, 3>>, <<4096, 3552, 16367, 32355, 3>>, <<11218, 2860, 12747, 26511, 11>>,
       <<0, 0, 0, 32587, 3>>, <<4096, 25001, 17654, 32365, 3>>, <<12341, 28203, 31915, 26967, 11>>,
       <<0, 0, 0, 32586, 3>>, <<4096, 32718, 19515, 32370, 3>>, <<29744, 16515, 18589, 26128, 3>>,
       <<0, 0, 0, 32585, 3>>, <<0, 18874, 22199, 32375, 3>>, <<3601, 19319, 1109, 26193, 11>>,
       <<0, 0, 0, 32584, 3>>, <<12288, 22887, 25713, 32380, 3>>, <<24368, 5145, 12211, 26846, 3>>,
       <<0, 0, 0, 32582, 3>>, <<22528, 16538, 17633, 32387, 3>>, <<20113, 11738, 29548, 26564, 3>>,
       <<0, 0, 0, 32581, 3>>, <<24576, 20162, 4277, 32390, 3>>, <<27369, 11385, 25132, 26936, 3>>,
       <<0, 0, 0, 32580, 3>>, <<26624, 1103, 24122, 32392, 3>>, <<28700, 18251, 1081, 26977, 11>>,
       <<0, 0, 0, 32579, 3>>, <<30720, 5977, 11635, 32395, 3>>, <<5761, 28490, 27447, 26972, 3>>,
       <<0, 0, 0, 32578, 3>>, <<26624, 18100, 32357, 32397, 3>>, <<15799, 8847, 7093, 26981, 3>>,
       <<0, 0, 0, 32577, 3>>, <<14336, 23069, 20757, 32400, 3>>, <<15082, 29837, 8058, 26708, 3>>,
       <<0, 0, 0, 32575, 3>>, <<4096, 31161, 31681, 32405, 3>>, <<1268, 5280, 29673, 26964, 3>>,
       <<0, 0, 0, 32574, 3>>, <<24576, 17318, 21447, 32408, 3>>, <<15544, 9794, 2539, 26951, 11>>,
       <<0, 0, 0, 32573, 3>>, <<4096, 28028, 11677, 32411, 3>>, <<30664, 25058, 15158, 26763, 3>>,
       <<0, 0, 0, 32572, 3>>, <<12288, 28262, 2377, 32414, 3>>, <<15708, 27661, 27986, 26817, 3>>,
       <<0, 0, 0, 32571, 3>>, <<26624, 18347, 26320, 32416, 3>>, <<24733, 22817, 4315, 26695, 3>>,
       <<0, 0, 0, 32570, 3>>, <<18432, 1251, 17975, 32419, 3>>, <<22133, 4815, 7992, 27001, 11>>,
       <<0, 0, 0, 32569, 3>>, <<12288, 15406, 10114, 32422, 3>>, <<22692, 13845, 548, 26993, 11>>,
       <<0, 0, 0, 32568, 3>>, <<8192, 3697, 2744, 32425, 3>>, <<18265, 713, 31170, 26997, 3>>,
       <<0, 0, 0, 32567, 3>>, <<20480, 10129, 28637, 32427, 3>>, <<16623, 23738, 14263, 26877, 3>>,
       <<0, 0, 0, 32566, 3>>, <<24576, 16050, 22263, 32430, 3>>, <<26076, 4424, 11432, 26704, 11>> >>

\* the double j = 1 .. 3 of interval i
PowLogTab(i, j) == libm("POW_LOG_TAB", i, j, j)

\* for each i = 0 .. 127: what 2^(i / 128) is beyond its double, and the
\* pattern of that double less i * 2^45
EXP_TAB ==
    << <<0, 0, 0, 0, 0>>, <<0, 0, 0, 32640, 3>>, <<16238, 13585, 27964, 25817, 3>>, <<13109, 21494, 22774, 32639, 3>>,
       <<23645, 14769, 78, 25483, 11>>, <<97, 31983, 12904, 32639, 3>>, <<26321, 8462, 31208, 25730, 11>>, <<32645, 20700, 3159, 32639, 3>>,
       <<30227, 27343, 18760, 25702, 3>>, <<1396, 9771, 26307, 32638, 3>>, <<3834, 18419, 14848, 25694, 11>>, <<30430, 21435, 16812, 32638, 3>>,
       <<18529, 17357, 23865, 25351, 3>>, <<7112, 12523, 7444, 32638, 3>>, <<21401, 13927, 3985, 25733, 3>>, <<29571, 5517, 30971, 32637, 3>>,
       <<31597, 15110, 27289, 25788, 3>>, <<2319, 23027, 21857, 32637, 3>>, <<28668, 9723, 21610, 25717, 3>>, <<18423, 22244, 12872, 32637, 3>>,
       <<7377, 24671, 30965, 25077, 3>>, <<20898, 26023, 4016, 32637, 3>>, <<28171, 4896, 3282, 25424, 11>>, <<21275, 24573, 28058, 32636, 3>>,
       <<15630, 21599, 22856, 25770, 11>>, <<23377, 8228, 19463, 32636, 3>>, <<27221, 6301, 958, 25220, 11>>, <<12748, 216, 10999, 32636, 3>>,
       <<29718, 29611, 9358, 25742, 11>>, <<11744, 23890, 2666, 32636, 3>>, <<21935, 21176, 20367, 25606, 3>>, <<3665, 4427, 27235, 32635, 3>>,
       <<4936, 21835, 27735, 25600, 11>>, <<20859, 30970, 19168, 32635, 3>>, <<12861, 11196, 32705, 25720, 11>>, <<3562, 28953, 11236, 32635, 3>>,
       <<21439, 32294, 9776, 25692, 3>>, <<19317, 22239, 3439, 32635, 3>>, <<27430, 27683, 26225, 25782, 11>>, <<23764, 2056, 28546, 32634, 3>>,
       <<12128, 31860, 13276, 25815, 3>>, <<14762, 25297, 21020, 32634, 3>>, <<14493, 5900, 7691, 25727, 11>>, <<22813, 17913, 13632, 32634, 3>>,
       <<17293, 2381, 15621, 25683, 3>>, <<3286, 4293, 6382, 32634, 3>>, <<1149, 25032, 26646, 25603, 3>>, <<23702, 8955, 32038, 32633, 3>>,
       <<10388, 18257, 15351, 25780, 3>>, <<25144, 23786, 25065, 32633, 3>>, <<18557, 25832, 30819, 25658, 3>>, <<9791, 8037, 18233, 32633, 3>>,
       <<26610, 12351, 7342, 25602, 3>>, <<31965, 19396, 11541, 32633, 3>>, <<2142, 32482, 25068, 25781, 11>>, <<25473, 17386, 4991, 32633, 3>>,
       <<11057, 23059, 24453, 25623, 3>>, <<24289, 27199, 31351, 32632, 3>>, <<16378, 13535, 1644, 25065, 11>>, <<22928, 8629, 25087, 32632, 3>>,
       <<2740, 25624, 24073, 25689, 3>>, <<779, 19912, 18966, 32632, 3>>, <<19343, 5021, 21066, 25456, 3>>, <<12118, 21116, 12990, 32632, 3>>,
       <<11190, 7009, 13781, 25626, 3>>, <<14101, 5219, 7160, 32632, 3>>, <<29772, 17752, 2055, 25650, 3>>, <<22577, 30873, 1475, 32632, 3>>,
       <<30794, 15271, 29925, 25726, 3>>, <<5887, 25800, 28706, 32631, 3>>, <<23300, 30492, 3584, 25653, 11>>, <<8177, 16165, 23317, 32631, 3>>,
       <<20584, 6294, 11191, 25746, 11>>, <<10699, 28277, 18076, 32631, 3>>, <<11662, 13986, 8160, 25800, 11>>, <<22630, 23051, 12985, 32631, 3>>,
       <<14034, 32040, 18336, 25486, 11>>, <<8183, 27083, 8044, 32631, 3>>, <<6933, 26524, 25702, 25800, 11>>, <<10469, 1575, 3255, 32631, 3>>,
       <<19565, 20052, 32034, 25644, 3>>, <<13346, 6180, 31385, 32630, 3>>, <<27018, 29776, 18817, 25752, 11>>, <<28, 2393, 26900, 32630, 3>>,
       <<2395, 4143, 7741, 25285, 11>>, <<11818, 17390, 22568, 32630, 3>>, <<6683, 20115, 12909, 25569, 11>>, <<10391, 12961, 18391, 32630, 3>>,
       <<11281, 16773, 4021, 25115, 3>>, <<2349, 16579, 14369, 32630, 3>>, <<25839, 30220, 6180, 25779, 3>>, <<87, 23098, 10503, 32630, 3>>,
       <<889, 13634, 13191, 25462, 3>>, <<15568, 27522, 6794, 32630, 3>>, <<4656, 32286, 32312, 25759, 3>>, <<21470, 25007, 3243, 32630, 3>>,
       <<12208, 30453, 17210, 25524, 3>>, <<10791, 10860, 32619, 32629, 3>>, <<24695, 22185, 30455, 25752, 3>>, <<23821, 13307, 29386, 32629, 3>>,
       <<9102, 227, 20688, 25724, 11>>, <<11431, 27962, 26313, 32629, 3>>, <<9033, 14631, 31539, 25662, 11>>, <<26178, 17822, 23402, 32629, 3>>,
       <<14431, 31262, 31514, 25542, 11>>, <<20354, 11578, 20653, 32629, 3>>, <<23798, 22774, 18715, 25648, 11>>, <<4623, 5307, 18067, 32629, 3>>,
       <<22414, 12795, 21524, 25753, 3>>, <<10202, 28010, 15644, 32629, 3>>, <<6917, 24341, 25308, 25564, 3>>, <<18429, 10543, 13387, 32629, 3>>,
       <<21513, 17464, 3975, 25731, 3>>, <<21545, 14992, 11295, 32629, 3>>, <<18154, 8243, 7701, 24998, 3>>, <<18103, 5298, 9370, 32629, 3>>,
       <<16437, 22217, 19352, 25761, 3>>, <<8520, 11098, 7612, 32629, 3>>, <<30367, 17202, 4393, 25703, 11>>, <<23561, 29421, 6022, 32629, 3>>,
       <<19880, 30686, 20244, 25697, 11>>, <<21893, 24692, 4602, 32629, 3>>, <<27054, 4695, 19938, 25634, 11>>, <<17184, 27033, 3352, 32629, 3>>,
       <<22616, 28844, 15221, 25758, 11>>, <<8741, 1194, 2274, 32629, 3>>, <<6500, 252, 17066, 25272, 3>>, <<10611, 10393, 1367, 32629, 3>>,
       <<8744, 32444, 20414, 25757, 11>>, <<15309, 19710, 633, 32629, 3>>, <<14722, 3689, 19126, 25424, 11>>, <<23231, 27159, 73, 32629, 3>>,
       <<10734, 28891, 8126, 25371, 11>>, <<6703, 30922, 32456, 32628, 3>>, <<2129, 10689, 28917, 25606, 11>>, <<5252, 29347, 32247, 32628, 3>>,
       <<16079, 31924, 32145, 25536, 11>>, <<24436, 20952, 32215, 32628, 3>>, <<32176, 278, 14635, 25655, 11>>, <<372, 4427, 32361, 32628, 3>>,
       <<26250, 15531, 25800, 25648, 11>>, <<26569, 11396, 32685, 32628, 3>>, <<21715, 15379, 29485, 25732, 3>>, <<23871, 8124, 421, 32629, 3>>,
       <<9501, 29339, 19314, 25561, 11>>, <<391, 26582, 1105, 32629, 3>>, <<16491, 10447, 13301, 25767, 3>>, <<16690, 609, 1972, 32629, 3>>,
       <<27733, 22444, 12166, 25391, 3>>, <<20066, 28062, 3020, 32629, 3>>, <<20290, 24423, 1812, 25669, 11>>, <<6674, 10364, 4253, 32629, 3>>,
       <<14132, 25206, 9947, 25755, 11>>, <<19987, 12953, 5670, 32629, 3>>, <<32542, 29747, 31248, 25602, 11>>, <<18349, 3143, 7273, 32629, 3>>,
       <<22382, 12516, 20803, 25766, 11>>, <<4845, 13961, 9062, 32629, 3>>, <<2560, 13853, 13725, 25733, 3>>, <<26265, 13076, 11039, 32629, 3>>,
       <<27316, 993, 23743, 25709, 3>>, <<8411, 1109, 13205, 32629, 3>>, <<26623, 14731, 22914, 25389, 11>>, <<17548, 11626, 15560, 32629, 3>>,
       <<24388, 13286, 23053, 25567, 3>>, <<30518, 12842, 18106, 32629, 3>>, <<15747, 20028, 9342, 25752, 11>>, <<32710, 5923, 20844, 32629, 3>>,
       <<7721, 5848, 9954, 25325, 11>>, <<17893, 24987, 23774, 32629, 3>>, <<14681, 31009, 4069, 25441, 11>>, <<21007, 6032, 26899, 32629, 3>>,
       <<31146, 17897, 3340, 25746, 11>>, <<20048, 16316, 30218, 32629, 3>>, <<3659, 11981, 10675, 25646, 11>>, <<1978, 24980, 965, 32630, 3>>,
       <<20007, 22307, 16368, 25485, 3>>, <<28816, 1351, 4678, 32630, 3>>, <<29627, 16916, 18647, 25454, 3>>, <<8995, 13254, 8588, 32630, 3>>,
       <<8803, 17604, 5136, 25662, 11>>, <<25957, 30395, 12697, 32630, 3>>, <<12757, 18372, 29211, 25688, 3>>, <<11571, 22676, 17007, 32630, 3>>,
       <<15125, 10105, 28487, 25741, 11>>, <<9565, 25724, 21518, 32630, 3>>, <<12754, 14812, 12486, 25734, 3>>, <<13144, 9825, 26232, 32630, 3>>,
       <<23219, 23782, 9745, 25635, 3>>, <<32191, 10995, 31149, 32630, 3>>, <<7604, 12061, 32566, 25622, 11>>, <<29562, 32679, 3502, 32631, 3>>,
       <<13191, 9622, 27102, 25696, 3>>, <<21421, 12981, 8830, 32631, 3>>, <<23034, 5539, 28221, 25731, 11>>, <<13926, 21275, 14364, 32631, 3>>,
       <<11962, 11705, 3941, 25262, 11>>, <<5627, 28830, 20106, 32631, 3>>, <<30272, 31565, 4152, 25733, 11>>, <<22842, 7114, 26058, 32631, 3>>,
       <<4916, 29019, 23504, 25414, 11>>, <<24135, 26102, 32219, 32631, 3>>, <<2613, 22193, 15241, 25743, 11>>, <<1610, 24898, 5824, 32632, 3>>,
       <<24013, 5311, 32604, 25511, 3>>, <<16850, 8343, 12410, 32632, 3>>, <<6316, 29989, 30703, 25741, 11>>, <<7689, 14254, 19209, 32632, 3>>,
       <<3251, 24926, 15032, 25499, 3>>, <<21148, 15114, 26223, 32632, 3>>, <<32148, 14655, 3273, 25719, 3>>, <<20602, 16383, 685, 32633, 3>>,
       <<22956, 8722, 575, 25639, 3>>, <<20811, 23727, 8132, 32633, 3>>, <<6759, 28828, 14012, 25374, 3>>, <<26549, 10253, 15798, 32633, 3>>,
       <<6504, 22820, 11441, 25403, 3>>, <<4201, 14815, 23683, 32633, 3>>, <<13778, 1945, 10338, 25604, 11>>, <<17402, 10939, 31789, 32633, 3>>,
       <<31343, 32767, 13684, 25725, 11>>, <<2428, 5135, 7349, 32634, 3>>, <<10569, 28907, 14008, 25728, 11>>, <<2546, 4123, 15900, 32634, 3>>,
       <<1959, 19578, 3606, 25509, 3>>, <<9351, 14839, 24675, 32634, 3>>, <<8719, 16512, 18040, 25620, 11>>, <<920, 11667, 908, 32635, 3>>,
       <<4780, 11139, 26947, 25714, 3>>, <<12933, 1974, 10136, 32635, 3>>, <<27467, 22530, 26982, 25633, 3>>, <<13408, 26115, 19591, 32635, 3>>,
       <<15903, 3944, 21636, 25622, 11>>, <<7007, 26359, 29276, 32635, 3>>, <<3529, 30350, 10980, 25673, 11>>, <<8489, 10731, 6424, 32636, 3>>,
       <<2259, 16501, 22545, 25509, 3>>, <<16374, 20246, 16571, 32636, 3>>, <<29297, 9018, 6065, 25630, 3>>, <<19587, 30606, 26951, 32636, 3>>,
       <<4592, 8103, 23626, 25727, 11>>, <<4314, 17737, 4798, 32637, 3>>, <<29821, 17478, 14947, 25709, 11>>, <<26609, 23324, 15648, 32637, 3>>,
       <<8200, 852, 3825, 25718, 3>>, <<23079, 23746, 26735, 32637, 3>>, <<27442, 1875, 11859, 25633, 3>>, <<14999, 28375, 5292, 32638, 3>>,
       <<1518, 25507, 4772, 25683, 3>>, <<17728, 14044, 16857, 32638, 3>>, <<25581, 18551, 24299, 25713, 11>>, <<15892, 23353, 28662, 32638, 3>>,
       <<19869, 6947, 9453, 25532, 3>>, <<4312, 829, 7942, 32639, 3>>, <<19593, 705, 5893, 25240, 3>>, <<29169, 22302, 20232, 32639, 3>> >>

\* the tail, j = 1, and the pattern, j = 2, of entry i
ExpTab(i, j) == libm("EXP_TAB", i, j, j)

\* specialcase: the result where it may be out of the range of the normal
\* doubles, from tmp, the pattern sbits of the scale and the sign of k: for
\* k > 0 with the scale 2^1009 lower, for k < 0 with it 2^1022 higher and
\* the last place rounded where the result is subnormal
exp_under_y(scale, t, y, one) ==
    fsub(fadd(fadd(fadd(fsub(one, fadd(y, one)), y),
                               fadd(fsub(scale, y), t)), fadd(y, one)), one)

exp_under_zero(z, sbits) == IF IsZero(z) THEN Zero(Limb(sbits, 5) \div 8) ELSE z

exp_under(scale, t, sbits, y) ==
    IF flt(FloatAbs(y), D_ONE)
    THEN fmul(exp_under_zero(exp_under_y(scale, t, y,
                                      IF flt(y, Zero(0)) THEN D_MINUS_ONE ELSE D_ONE), sbits),
                  TWOM1022)
    ELSE fmul(y, TWOM1022)

exp_under_t(scale, t, sbits) == exp_under(scale, t, sbits, fadd(scale, t))

exp_under_scale(tmp, sbits, scale) == exp_under_t(scale, fmul(scale, tmp), sbits)

exp_over_scale(tmp, scale) == fmul(fma(scale, tmp, scale), TWO1009)

specialcase(tmp, sbits, negative) ==
    IF ~negative THEN exp_over_scale(tmp, asdouble(PatternSub(sbits, BigShl(Big(1009), 52))))
    ELSE exp_under_scale(tmp, PatternLow(BigAdd(sbits, BigShl(Big(1022), 52))),
                         asdouble(PatternLow(BigAdd(sbits, BigShl(Big(1022), 52)))))

\* exp_inline(x, xtail): e^(x + xtail).  ki is the whole number nearest to
\* 128 * x / log(2); i its 7 low bits, which choose the table entry, and
\* what is above them goes into the exponent
exp_tmp(tmp, sbits, ordinary, negative) ==
    IF ordinary THEN fma(tmp, asdouble(sbits), asdouble(sbits)) ELSE specialcase(tmp, sbits, negative)

exp_r2(r, r2, i, sbits, ordinary, negative) ==
    exp_tmp(fma(fma(r, EXP_C5, EXP_C4), fmul(r2, r2),
                fma(fma(r, EXP_C3, EXP_C2), r2, fadd(r, asdouble(ExpTab(i, 1))))),
            sbits, ordinary, negative)

exp_r(r, i, sbits, ordinary, negative) == exp_r2(r, fmul(r, r), i, sbits, ordinary, negative)

exp_kd(x, xtail, kd, ki, ordinary, negative) ==
    exp_r(fadd(xtail, fma(kd, NEGLN2LON, fma(kd, NEGLN2HIN, x))), ki % 128,
          PatternLow(BigAdd(ExpTab(ki % 128, 2), BigShlLimbs(Big(ki % (2 ^ 19)), 3))),
          ordinary, negative)

exp_z(x, xtail, z, ordinary) ==
    exp_kd(x, xtail, fsub(z, EXP_SHIFT), LowBits(z), ordinary, (Limb(z.m, 3) \div 2) % 2 = 1)

exp_inline(x, xtail) ==
    IF ExpField(x) < 969 THEN fadd(D_ONE, x)
    ELSE IF ExpField(x) >= 1033 THEN (IF x.s = 1 THEN Zero(0) ELSE Inf(0))
    ELSE exp_z(x, xtail, fma(x, INVLN2N, EXP_SHIFT), ExpField(x) < 1032)

\* log_inline, and y times the logarithm (hi, lo): x = z * 2^k with z near
\* 1, in interval i; r = z / c - 1 for the c of the interval
pow_hi(y, hi, lo) == exp_inline(fmul(y, hi), fma(y, lo, fms(hi, y, fmul(y, hi))))

pow_lo(y, hi, lo) == pow_hi(y, fadd(hi, lo), fadd(fsub(hi, fadd(hi, lo)), lo))

pow_p(r, ar2) ==
    fma(ar2, fma(fma(r, POW_A6, POW_A5), ar2, fma(r, POW_A4, POW_A3)), fma(r, POW_A2, POW_A1))

pow_ar2(y, r, t1, lo1, ar, t2, ar2) ==
    pow_lo(y, fadd(t2, ar2),
           fma(fmul(r, ar2), pow_p(r, ar2),
               fadd(fadd(fadd(lo1, fadd(fsub(t1, t2), r)), fms(ar, r, ar2)),
                        fadd(fsub(t2, fadd(t2, ar2)), ar2))))

pow_ar(y, r, t1, lo1, ar, t2) == pow_ar2(y, r, t1, lo1, ar, t2, fmul(r, ar))

pow_r(y, r, t1, lo1) == pow_ar(y, r, t1, lo1, fmul(r, POW_A0), fadd(r, t1))

pow_kd(y, z, kd, i) ==
    pow_r(y, fma(z, PowLogTab(i, 1), D_MINUS_ONE), fma(kd, LN2HI, PowLogTab(i, 2)),
          fma(kd, LN2LO, PowLogTab(i, 3)))

pow_k(y, z, top, i) == pow_kd(y, z, float(IF top >= 2048 THEN top - 4096 ELSE top), i)

pow_tmp(y, ix, tmp) ==
    pow_k(y, asdouble(PatternSub(ix, BigShl(BigShr(tmp, 52), 52))), Limb(BigShr(tmp, 52), 1),
          Limb(tmp, 4) % 128)

pow_ix(y, ix) == pow_tmp(y, ix, PatternSub(ix, POW_OFF))

\* pow(x, y) of a finite x > 0 and a y between 2^-65 and 2^63; a subnormal x
\* is taken times 2^52, with 52 less in the exponent field
__pow(x, y) ==
    IF ExpField(x) = 0
    THEN pow_ix(y, PatternSub(asuint64(fmul(x, TWO52)), BigShl(Big(52), 52)))
    ELSE pow_ix(y, asuint64(x))

\* the library: its arithmetic, its tables and its functions
libm(f, a, b, c) ==
    IF f = "fma" THEN Fma(a, b, c)
    ELSE IF f = "add" THEN FloatAdd(a, b)
    ELSE IF f = "mul" THEN FloatMul(a, b)
    ELSE IF f = "div" THEN FloatDiv(a, b)
    ELSE IF f = "lt" THEN FloatLt(a, b)
    ELSE IF f = "le" THEN FloatLe(a, b)
    ELSE IF f = "asdouble" THEN DoubleOfPattern(a)
    ELSE IF f = "SINCOSTAB" THEN DoubleOfPattern(SINCOSTAB[4 * a + b])
    ELSE IF f = "TOVERP" THEN DoubleOfPattern(TOVERP[a + 1])
    ELSE IF f = "CIJ" THEN DoubleOfPattern(CIJ[7 * a + b + 1])
    ELSE IF f = "POW_LOG_TAB" THEN DoubleOfPattern(POW_LOG_TAB[3 * a + b])
    ELSE IF f = "EXP_TAB" THEN EXP_TAB[2 * a + b]
    ELSE IF f = "do_sincos" THEN do_sincos(a, b, c)
    ELSE IF f = "sin" THEN __sin(a)
    ELSE IF f = "cos" THEN __cos(a)
    ELSE IF f = "atan2" THEN __ieee754_atan2(a, b)
    ELSE __pow(a, b)

\* math.sin(x) and math.cos(x): ValueError for an infinity
sin(x) ==
    IF IsFloatError(x) \/ x.k = "nan" THEN x
    ELSE IF x.k = "inf" THEN FloatError("ValueError")
    ELSE libm("sin", x, x, x)

cos(x) ==
    IF IsFloatError(x) \/ x.k = "nan" THEN x
    ELSE IF x.k = "inf" THEN FloatError("ValueError")
    ELSE libm("cos", x, x, x)

\* math.atan2(y, x) (m_atan2), which settles the cases of nan, infinity and
\* zero itself
atan2(y, x) ==
    IF IsFloatError(y) THEN y
    ELSE IF IsFloatError(x) THEN x
    ELSE IF y.k = "nan" \/ x.k = "nan" THEN NaN
    ELSE IF y.k = "inf"
    THEN (IF x.k = "inf" THEN CopySign(IF x.s = 0 THEN QUARTER_PI ELSE THREE_QUARTER_PI, y)
          ELSE CopySign(HALF_PI, y))
    ELSE IF x.k = "inf" \/ IsZero(y) THEN (IF x.s = 0 THEN Zero(y.s) ELSE CopySign(PI, y))
    ELSE IF IsZero(x) THEN CopySign(HALF_PI, y)
    ELSE libm("atan2", y, x, x)

\* pow(x, y)
pow(x, y) == libm("pow", x, y, y)

\* x ** 2 (float_pow): nan, inf, 0.0 and 1.0 for a nan, an infinity, a zero
\* and 1 or -1; else pow(abs(x), 2.0), and OverflowError where that is out
\* of range
FloatSquareOf(r) == IF r.k = "inf" THEN FloatError("OverflowError") ELSE r

FloatSquare(x) ==
    IF x.k # "fin" THEN FloatAbs(x)
    ELSE IF IsZero(x) THEN Zero(0)
    ELSE IF FloatAbs(x) = D_ONE THEN D_ONE
    ELSE FloatSquareOf(pow(FloatAbs(x), D_TWO))

\* the constants of math.degrees and math.radians: 180 / pi and pi / 180
radToDeg == FloatDiv(float(180), PI)

degToRad == FloatDiv(PI, float(180))

\* math.degrees(x) and math.radians(x)
degrees(x) == FloatMul(x, radToDeg)

radians(x) == FloatMul(x, degToRad)

(***************************************************************************)
(* Angle (vec.py).  A component is a float of degrees.                     *)
(***************************************************************************)
\* float(x) % 360 % 360 of the constructor and the setters: twice, because
\* -1e-14 % 360.0 is 360.0
Normalize(x) == PyMod360(PyMod360(x))

\* Angle(pitch, yaw, roll), given floats
Angle_init(pitch, yaw, roll) ==
    [pitch |-> Normalize(pitch), yaw |-> Normalize(yaw), roll |-> Normalize(roll)]

\* the indices __getitem__ and __setitem__ take for each component
PITCH_INDS == {"0", "p", "pit", "pitch"}
YAW_INDS == {"1", "y", "yaw"}
ROLL_INDS == {"2", "r", "rol", "roll"}

\* the pitch, yaw and roll setters: angle.pitch = val
Angle_setattr(angle, name, val) == [angle EXCEPT ![name] = Normalize(val)]

\* angle[ind] = val
Angle_setitem(angle, ind, val) ==
    IF ind \in PITCH_INDS THEN [err |-> "none", angle |-> [angle EXCEPT !.pitch = Normalize(val)]]
    ELSE IF ind \in YAW_INDS THEN [err |-> "none", angle |-> [angle EXCEPT !.yaw = Normalize(val)]]
    ELSE IF ind \in ROLL_INDS THEN [err |-> "none", angle |-> [angle EXCEPT !.roll = Normalize(val)]]
    ELSE [err |-> "KeyError", angle |-> angle]

\* angle * other, for a float other
Angle_mul(angle, other) ==
    Angle_init(FloatMul(angle.pitch, other), FloatMul(angle.yaw, other), FloatMul(angle.roll, other))

\* other * angle, for a float other
Angle_rmul(angle, other) ==
    Angle_init(FloatMul(other, angle.pitch), FloatMul(other, angle.yaw), FloatMul(other, angle.roll))

(***************************************************************************)
(* Matrix (vec.py)                                                         *)
(***************************************************************************)
\* Matrix(): the identity
Matrix ==
    [aa |-> float(1), ab |-> float(0), ac |-> float(0),
     ba |-> float(0), bb |-> float(1), bc |-> float(0),
     ca |-> float(0), cb |-> float(0), cc |-> float(1)]

\* Matrix.from_angle(angle) from the sines and cosines on: the products
\* and the entries of the matrix
from_angle_rot(cos_p, sin_p, sin_y, cos_y, cos_r, sin_r) ==
    LET cos_r_cos_y == FloatMul(cos_r, cos_y)
        cos_r_sin_y == FloatMul(cos_r, sin_y)
        sin_r_cos_y == FloatMul(sin_r, cos_y)
        sin_r_sin_y == FloatMul(sin_r, sin_y)
    IN [aa |-> FloatMul(cos_p, cos_y),
        ab |-> FloatMul(cos_p, sin_y),
        ac |-> FloatNeg(sin_p),
        ba |-> FloatSub(FloatMul(sin_p, sin_r_cos_y), cos_r_sin_y),
        bb |-> FloatAdd(FloatMul(sin_p, sin_r_sin_y), cos_r_cos_y),
        bc |-> FloatMul(sin_r, cos_p),
        ca |-> FloatAdd(FloatMul(sin_p, cos_r_cos_y), sin_r_sin_y),
        cb |-> FloatSub(FloatMul(sin_p, cos_r_sin_y), sin_r_cos_y),
        cc |-> FloatMul(cos_r, cos_p)]

\* Matrix.from_angle(angle)
from_angle(angle) ==
    LET rad_pitch == radians(angle.pitch)
        rad_yaw == radians(angle.yaw)
        rad_roll == radians(angle.roll)
    IN from_angle_rot(cos(rad_pitch), sin(rad_pitch), sin(rad_yaw), cos(rad_yaw), cos(rad_roll), sin(rad_roll))

\* the limit under which to_angle takes the rotation for vertical: 0.001
GIMBAL_LIMIT == Literal(1, -3)

\* (variant: the pitch is taken from for_z, not from -for_z)
to_angle_euler_PitchSign(self, horiz_dist) ==
    IF IsFloatError(horiz_dist) THEN horiz_dist
    ELSE IF FloatGt(horiz_dist, GIMBAL_LIMIT)
    THEN Angle_init(degrees(atan2(self.ac, horiz_dist)),
               degrees(atan2(self.ab, self.aa)),
               degrees(atan2(self.bc, self.cc)))
    ELSE Angle_init(degrees(atan2(self.ac, horiz_dist)),
               degrees(atan2(FloatNeg(self.ba), self.bb)),
               float(0))

\* Matrix.to_angle() from horiz_dist on: the Angle, or the exception that
\* horiz_dist is when for_x ** 2 or for_y ** 2 raised it
to_angle_euler(self, horiz_dist) ==
    IF IsFloatError(horiz_dist) THEN horiz_dist
    ELSE IF FloatGt(horiz_dist, GIMBAL_LIMIT)
    THEN Angle_init(degrees(atan2(FloatNeg(self.ac), horiz_dist)),
               degrees(atan2(self.ab, self.aa)),
               degrees(atan2(self.bc, self.cc)))
    ELSE Angle_init(degrees(atan2(FloatNeg(self.ac), horiz_dist)),
               degrees(atan2(FloatNeg(self.ba), self.bb)),
               float(0))

\* Matrix.to_angle()
to_angle(self) == to_angle_euler(self, sqrt(FloatAdd(FloatSquare(self.aa), FloatSquare(self.ab))))

\* x1 * y1 + x2 * y2 + x3 * y3, added from the left
Dot3(x1, y1, x2, y2, x3, y3) == FloatAdd(FloatAdd(FloatMul(x1, y1), FloatMul(x2, y2)), FloatMul(x3, y3))

\* Matrix._mat_mul(other): self rotated by other
_mat_mul(self, other) ==
    [aa |-> Dot3(self.aa, other.aa, self.ab, other.ba, self.ac, other.ca),
     ab |-> Dot3(self.aa, other.ab, self.ab, other.bb, self.ac, other.cb),
     ac |-> Dot3(self.aa, other.ac, self.ab, other.bc, self.ac, other.cc),
     ba |-> Dot3(self.ba, other.aa, self.bb, other.ba, self.bc, other.ca),
     bb |-> Dot3(self.ba, other.ab, self.bb, other.bb, self.bc, other.cb),
     bc |-> Dot3(self.ba, other.ac, self.bb, other.bc, self.bc, other.cc),
     ca |-> Dot3(self.ca, other.aa, self.cb, other.ba, self.cc, other.ca),
     cb |-> Dot3(self.ca, other.ab, self.cb, other.bb, self.cc, other.cb),
     cc |-> Dot3(self.ca, other.ac, self.cb, other.bc, self.cc, other.cc)]

\* Vec(x, y, z), given floats
Vec(x, y, z) == [x |-> x, y |-> y, z |-> z]

\* Matrix._vec_rot(vec): the vector rotated by the matrix
_vec_rot(self, vec) ==
    Vec(Dot3(vec.x, self.aa, vec.y, self.ba, vec.z, self.ca),
        Dot3(vec.x, self.ab, vec.y, self.bb, vec.z, self.cb),
        Dot3(vec.x, self.ac, vec.y, self.bc, vec.z, self.cc))

\* matrix @= angle
Matrix_imatmul(self, angle) == _mat_mul(self, from_angle(angle))

\* Angle._rotate_angle(target): the target rotated by this angle
_rotate_angle(self, target) == to_angle(Matrix_imatmul(Matrix_imatmul(Matrix, target), self))

\* angle @ other, for two Angles
Angle_matmul(self, other) == _rotate_angle(other, self)

\* vec @ angle
Angle_rmatmul(self, vec) == _vec_rot(from_angle(self), vec)

(***************************************************************************)
(* An Angle as a state machine: constructed, then assigned to, multiplied, *)
(* composed and transformed by its caller                                  *)
(***************************************************************************)
\* operations on an Angle after its construction; a transform() scope
\* counts by what is done in it and by its end
MaxAngleOps == 2

\* the numbers given to the setters: tiny and negative, whose first modulus
\* is 360.0, and more than a full turn
InputDegrees == {FloatNeg(Literal(1, -14)), float(450)}

\* the scalars an Angle is multiplied by: -1.0 and 1e308
InputScalars == {float(-1), Literal(1, 308)}

\* the indices given to __setitem__, among them one that is no axis
InputInds == {"0", "yaw", "rol", "x"}

\* the Angles an Angle is constructed as
InputAngles ==
    {Angle_init(float(359), float(0), float(0)),
     Angle_init(Literal(8997, -2), FloatNeg(Literal(1, -14)), float(30)),
     Angle_init(float(-1), float(450), Literal(1805, -1))}

\* the Angles an Angle is composed with
InputRotations ==
    {Angle_init(float(0), float(90), float(0)),
     Angle_init(float(30), Literal(2005, -1), float(315))}

InitAngle ==
    /\ ContainerIdle /\ PropsIdle /\ EntsIdle /\ PakIdle /\ VisIdle /\ TexIdle /\ RotIdle /\ AxIdle /\ GridIdle /\ SaveIdle
    /\ ang_pc = "live"
    /\ ang \in InputAngles
    /\ ang_mat = None
    /\ ang_last = [op |-> "init"]
    /\ ang_err = "none"
    /\ ang_ops = 0

AngleStep == ang_pc = "live" /\ ang_ops < MaxAngleOps /\ ang_ops' = ang_ops + 1

\* angle.pitch = val, angle.yaw = val, angle.roll = val
AngleSetAttr(name, val) ==
    /\ AngleStep
    /\ ang' = Angle_setattr(ang, name, val)
    /\ ang_last' = [op |-> "setattr", name |-> name, val |-> val]
    /\ ang_err' = "none"
    /\ UNCHANGED <<ang_pc, ang_mat, nonAngVars>>

\* angle[ind] = val
AngleSetItem(ind, val) ==
    /\ AngleStep
    /\ ang' = Angle_setitem(ang, ind, val).angle
    /\ ang_err' = Angle_setitem(ang, ind, val).err
    /\ ang_last' = [op |-> "setitem", name |-> ind, val |-> val]
    /\ UNCHANGED <<ang_pc, ang_mat, nonAngVars>>

\* angle = angle * other, angle = other * angle
AngleMul(other, reflected) ==
    /\ AngleStep
    /\ ang' = IF reflected THEN Angle_rmul(ang, other) ELSE Angle_mul(ang, other)
    /\ ang_last' = [op |-> "mul", val |-> other]
    /\ ang_err' = "none"
    /\ UNCHANGED <<ang_pc, ang_mat, nonAngVars>>

\* the caller's Angle becomes the Angle r, or r is the exception raised
Returned(r) ==
    /\ ang' = IF "pitch" \in DOMAIN r THEN r ELSE ang
    /\ ang_err' = IF "pitch" \in DOMAIN r THEN "none" ELSE r.k

\* angle = angle @ other
AngleMatMul(other) ==
    /\ AngleStep
    /\ Returned(Angle_matmul(ang, other))
    /\ ang_last' = [op |-> "matmul", val |-> other]
    /\ UNCHANGED <<ang_pc, ang_mat, nonAngVars>>

\* with angle.transform() as mat:
TransformEnter ==
    /\ ang_pc = "live"
    /\ ang_ops < MaxAngleOps
    /\ ang_mat = None
    /\ ang_mat' = Matrix
    /\ ang_last' = [op |-> "enter"]
    /\ ang_err' = "none"
    /\ UNCHANGED <<ang_pc, ang, ang_ops, nonAngVars>>

\* mat @= other, in the scope
TransformRotate(other) ==
    /\ AngleStep
    /\ ang_mat # None
    /\ ang_mat' = Matrix_imatmul(ang_mat, other)
    /\ ang_last' = [op |-> "rotate", val |-> other]
    /\ ang_err' = "none"
    /\ UNCHANGED <<ang_pc, ang, nonAngVars>>

\* the body of the scope ends: the matrix is applied to the angle
TransformExit ==
    /\ AngleStep
    /\ ang_mat # None
    /\ Returned(to_angle(ang_mat))
    /\ ang_mat' = None
    /\ ang_last' = [op |-> "exit"]
    /\ UNCHANGED <<ang_pc, nonAngVars>>

\* the body of the scope raises: the generator is not resumed
TransformRaise ==
    /\ AngleStep
    /\ ang_mat # None
    /\ ang_mat' = None
    /\ ang_last' = [op |-> "raise"]
    /\ ang_err' = "Exception"
    /\ UNCHANGED <<ang_pc, ang, nonAngVars>>

NextAngle ==
    \/ \E name \in {"pitch", "yaw", "roll"}, val \in InputDegrees : AngleSetAttr(name, val)
    \/ \E ind \in InputInds, val \in InputDegrees : AngleSetItem(ind, val)
    \/ \E other \in InputScalars, reflected \in BOOLEAN : AngleMul(other, reflected)
    \/ \E other \in InputRotations : AngleMatMul(other)
    \/ TransformEnter
    \/ \E other \in InputRotations : TransformRotate(other)
    \/ TransformExit
    \/ TransformRaise

SpecAngle == InitAngle /\ [][NextAngle]_vars

\* a component is >= 0 and < 360
InTurn(c) == FloatLe(float(0), c) /\ FloatLt(c, float(360))

(***************************************************************************)
(* C23  Angle invariant: after construction and after any sequence of      *)
(* attribute assignments, index assignments, scalar multiplications, @     *)
(* compositions and transform() scopes, each of pitch, yaw and roll of the *)
(* Angle is >= 0 and < 360.                                                *)
(***************************************************************************)
AngleInvariant ==
    ang_pc = "live" => InTurn(ang.pitch) /\ InTurn(ang.yaw) /\ InTurn(ang.roll)

(***************************************************************************)
(* Rotations as state machines: an Angle taken to a Matrix and back, and a *)
(* Vec rotated by two Angles in turn or by their composition               *)
(***************************************************************************)
\* the pitches of the Angles taken to a Matrix and back: level, up and
\* down, past the vertical (135), the nearest hundredths of a degree to the
\* vertical that to_angle tells from it (89.94 and 270.06), and the next
\* (89.95 and 270.05)
InputPitches ==
    {float(0), float(45), Literal(8994, -2), Literal(8995, -2), float(135), Literal(27005, -2), Literal(27006, -2), float(315)}

\* their yaws, the last the float just under 360
InputYaws == {float(0), float(90), Literal(2005, -1), FloatNeg(Literal(5, -14))}

InputRolls == {float(0), float(30), float(180)}

InitRoundTrip ==
    /\ ContainerIdle /\ PropsIdle /\ EntsIdle /\ PakIdle /\ VisIdle /\ TexIdle /\ AngIdle /\ AxIdle /\ GridIdle /\ SaveIdle
    /\ rot_pc = "start"
    /\ \E pitch \in InputPitches, yaw \in InputYaws, roll \in InputRolls :
         rot_in = [a |-> Angle_init(pitch, yaw, roll), b |-> None, v |-> None]
    /\ rot_out = None

\* back = Matrix.from_angle(a).to_angle()
RoundTrip ==
    /\ rot_pc = "start"
    /\ rot_in.b = None
    /\ rot_out' = [back |-> to_angle(from_angle(rot_in.a))]
    /\ rot_pc' = "done"
    /\ UNCHANGED <<rot_in, nonRotVars>>

NextRoundTrip == RoundTrip

SpecRoundTrip == InitRoundTrip /\ [][NextRoundTrip]_vars

\* the Angles and the Vecs of the compositions
InputFirsts ==
    {Angle_init(Literal(8997, -2), float(0), float(30)),
     Angle_init(float(0), float(90), float(0)),
     Angle_init(float(45), float(30), float(0)),
     Angle_init(float(90), float(0), float(90))}

InputSeconds ==
    {Angle_init(float(0), float(0), float(0)),
     Angle_init(float(0), float(90), float(0)),
     Angle_init(float(30), float(0), float(315))}

InputVecs ==
    {Vec(float(1), float(0), float(0)), Vec(float(1), float(2), float(3)),
     Vec(float(-1), float(0), float(5)), Vec(float(0), float(0), float(0)),
     Vec(Literal(5, -1), FloatNeg(Literal(25, -2)), float(128))}

InitCompose ==
    /\ ContainerIdle /\ PropsIdle /\ EntsIdle /\ PakIdle /\ VisIdle /\ TexIdle /\ AngIdle /\ AxIdle /\ GridIdle /\ SaveIdle
    /\ rot_pc = "start"
    /\ \E a \in InputFirsts, b \in InputSeconds, v \in InputVecs :
         rot_in = [a |-> a, b |-> b, v |-> v]
    /\ rot_out = None

\* what the caller computes from a, b and v, given a @ b
Composition(a, b, v, composed) ==
    [in_turn |-> Angle_rmatmul(b, Angle_rmatmul(a, v)),
     composed |-> composed,
     at_once |-> Angle_rmatmul(composed, v)]

\* in_turn = (v @ a) @ b; composed = a @ b; at_once = v @ composed
Compose ==
    /\ rot_pc = "start"
    /\ rot_in.b # None
    /\ rot_out' = Composition(rot_in.a, rot_in.b, rot_in.v, Angle_matmul(rot_in.a, rot_in.b))
    /\ rot_pc' = "done"
    /\ UNCHANGED <<rot_in, nonRotVars>>

NextCompose == Compose

SpecCompose == InitCompose /\ [][NextCompose]_vars

\* abs(x - y) <= tol
Within(x, y, tol) == FloatLe(FloatSub(x, y), tol) /\ FloatLe(FloatSub(y, x), tol)

\* the tolerance of the comparison of Angles: 1e-4 degrees
ANGLE_TOLERANCE == Literal(1, -4)

AngleWithin(a1, a2) ==
    /\ Within(a1.pitch, a2.pitch, ANGLE_TOLERANCE)
    /\ Within(a1.yaw, a2.yaw, ANGLE_TOLERANCE)
    /\ Within(a1.roll, a2.roll, ANGLE_TOLERANCE)

(***************************************************************************)
(* C24 (as claimed)  Matrix round trip: for every Angle a whose pitch is   *)
(* not 90 or 270 degrees, Matrix.from_angle(a).to_angle() equals a         *)
(* component by component (within 1e-4 degrees).                           *)
(***************************************************************************)
MatrixRoundTripAnyPitch ==
    (rot_pc = "done" /\ rot_in.a.pitch \notin {float(90), float(270)}) =>
        AngleWithin(rot_out.back, rot_in.a)

\* the pitch is at most 89.94 or at least 270.06 degrees
FarFromVertical(a) == FloatLe(a.pitch, Literal(8994, -2)) \/ FloatLe(Literal(27006, -2), a.pitch)

(***************************************************************************)
(* C24 (amended)  Matrix round trip: for every Angle a whose pitch is at   *)
(* most 89.94 or at least 270.06 degrees, Matrix.from_angle(a).to_angle()  *)
(* equals a component by component (within 1e-4 degrees).                  *)
(***************************************************************************)
MatrixRoundTrip ==
    (rot_pc = "done" /\ FarFromVertical(rot_in.a)) => AngleWithin(rot_out.back, rot_in.a)

\* an Angle of pitch 89.94, the nearest to the vertical, with a yaw and a
\* roll, came back
MatrixRoundTripWitness ==
    /\ rot_pc = "done"
    /\ rot_in.a = Angle_init(Literal(8994, -2), Literal(2005, -1), float(30))
    /\ AngleWithin(rot_out.back, rot_in.a)

\* the tolerance of the comparison of Vecs: 1e-6
TOLERANCE == Literal(1, -6)

VecWithin(u, v) ==
    Within(u.x, v.x, TOLERANCE) /\ Within(u.y, v.y, TOLERANCE) /\ Within(u.z, v.z, TOLERANCE)

(***************************************************************************)
(* C25  Rotation composition: for every Vec v and Angles a and b,          *)
(* (v @ a) @ b equals v @ (a @ b) in each component (within 1e-6), where   *)
(* a @ b is the Angle obtained by composing a's rotation with b's.         *)
(***************************************************************************)
RotationComposition ==
    rot_pc = "done" => VecWithin(rot_out.in_turn, rot_out.at_once)

(***************************************************************************)
(* Vec.axis() and Vec.rotation_around() (vec.py)                           *)
(***************************************************************************)
\* self.x != 0, and the truth of self.x in an if
NonZero(x) == ~IsZero(x)

\* Vec.axis()
axis(self) ==
    LET x == NonZero(self.x)
        y == NonZero(self.y)
        z == NonZero(self.z)
    IN IF x /\ ~y /\ ~z THEN [err |-> "none", out |-> "x"]
       ELSE IF ~x /\ y /\ ~z THEN [err |-> "none", out |-> "y"]
       ELSE IF ~x /\ ~y /\ z THEN [err |-> "none", out |-> "z"]
       ELSE [err |-> "ValueError", out |-> None]

\* Vec.rotation_around(rot), for a float rot
rotation_around(self, rot) ==
    IF NonZero(self.x) THEN [err |-> "none", out |-> Vec(float(0), float(0), FloatMul(self.x, rot))]
    ELSE IF NonZero(self.y) THEN [err |-> "none", out |-> Vec(FloatMul(self.y, rot), float(0), float(0))]
    ELSE IF NonZero(self.z) THEN [err |-> "none", out |-> Vec(float(0), FloatMul(self.z, rot), float(0))]
    ELSE [err |-> "ValueError", out |-> None]

\* the components of the vectors of the inputs
InputComponents == {-1, 0, 1, 2}

\* the rot arguments of the inputs; 90 is the default
InputRots == {90, -90, 45}

InitAxis ==
    /\ ContainerIdle /\ PropsIdle /\ EntsIdle /\ PakIdle /\ VisIdle /\ TexIdle /\ AngIdle /\ RotIdle /\ GridIdle /\ SaveIdle
    /\ ax_pc = "start"
    /\ \E x \in InputComponents, y \in InputComponents, z \in InputComponents :
         ax_vec = Vec(float(x), float(y), float(z))
    /\ ax_call = None
    /\ ax_out = None
    /\ ax_err = "none"

\* vec.axis()
AxisCall ==
    /\ ax_pc = "start"
    /\ LET r == axis(ax_vec) IN
         /\ ax_out' = r.out
         /\ ax_err' = r.err
         /\ ax_pc' = IF r.err = "none" THEN "done" ELSE "failed"
    /\ ax_call' = [method |-> "axis"]
    /\ UNCHANGED <<ax_vec, nonAxVars>>

\* vec.rotation_around(rot)
RotationAroundCall(rot) ==
    /\ ax_pc = "start"
    /\ LET r == rotation_around(ax_vec, float(rot)) IN
         /\ ax_out' = r.out
         /\ ax_err' = r.err
         /\ ax_pc' = IF r.err = "none" THEN "done" ELSE "failed"
    /\ ax_call' = [method |-> "rotation_around", rot |-> rot]
    /\ UNCHANGED <<ax_vec, nonAxVars>>

NextAxis ==
    \/ AxisCall
    \/ \E rot \in InputRots : RotationAroundCall(rot)

SpecAxis == InitAxis /\ [][NextAxis]_vars

\* how many components of the vector are not zero
NonZeroCount(vec) == Cardinality({c \in {"x", "y", "z"} : NonZero(vec[c])})

(***************************************************************************)
(* C26  Vec.axis() and Vec.rotation_around() both fail with an error on    *)
(* every vector that is not axis-aligned (more than one non-zero           *)
(* component) and on the zero vector, and succeed on every vector with     *)
(* exactly one non-zero component.                                         *)
(***************************************************************************)
AxisAlignedOrError ==
    /\ ax_pc = "done" => NonZeroCount(ax_vec) = 1
    /\ ax_pc = "failed" => NonZeroCount(ax_vec) # 1 /\ ax_err = "ValueError"

(***************************************************************************)
(* Vec.iter_grid() (vec.py), a generator: each next() of the caller runs   *)
(* the three nested loops up to the next yield or to their end             *)
(***************************************************************************)
\* int(x) of a finite float under 2^31 in size: towards zero
int(x) ==
    LET whole == IF x.e >= 0 THEN BigShl(x.m, x.e) ELSE BigShr(x.m, 0 - x.e)
        n == Limb(whole, 1) + BASE * Limb(whole, 2) + BASE * BASE * Limb(whole, 3)
    IN IF x.s = 1 THEN 0 - n ELSE n

\* the point after pos in the loops over range(min, max + 1, stride), or
\* None when the loops end
GridAfter(pos, min_pos, max_pos, stride) ==
    IF pos.z + stride < int(max_pos.z) + 1
    THEN [x |-> pos.x, y |-> pos.y, z |-> pos.z + stride]
    ELSE IF pos.y + stride < int(max_pos.y) + 1
    THEN [x |-> pos.x, y |-> pos.y + stride, z |-> int(min_pos.z)]
    ELSE IF pos.x + stride < int(max_pos.x) + 1
    THEN [x |-> pos.x + stride, y |-> int(min_pos.y), z |-> int(min_pos.z)]
    ELSE None

\* the first point of the loops, or None when one of the ranges is empty
GridFirst(min_pos, max_pos) ==
    IF /\ int(min_pos.x) < int(max_pos.x) + 1
       /\ int(min_pos.y) < int(max_pos.y) + 1
       /\ int(min_pos.z) < int(max_pos.z) + 1
    THEN [x |-> int(min_pos.x), y |-> int(min_pos.y), z |-> int(min_pos.z)]
    ELSE None

\* the length of a side of the box of an input
MaxExtent == 2
\* the stride of an input
MaxStride == 2

InputMins == {Vec(float(0), float(0), float(0)), Vec(float(-1), float(2), float(-3))}

InitGrid ==
    /\ ContainerIdle /\ PropsIdle /\ EntsIdle /\ PakIdle /\ VisIdle /\ TexIdle /\ AngIdle /\ RotIdle /\ AxIdle /\ SaveIdle
    /\ grid_pc = "start"
    /\ \E min_pos \in InputMins, dx \in 0..MaxExtent, dy \in 0..MaxExtent, dz \in 0..MaxExtent,
          stride \in 1..MaxStride :
         grid_in = [min_pos |-> min_pos,
                    max_pos |-> Vec(FloatAdd(min_pos.x, float(dx)), FloatAdd(min_pos.y, float(dy)),
                                    FloatAdd(min_pos.z, float(dz))),
                    stride |-> stride]
    /\ grid_out = <<>>

\* next(points), for points = Vec.iter_grid(min_pos, max_pos, stride)
GridNext ==
    /\ grid_pc \in {"start", "running"}
    /\ LET last == grid_out[Len(grid_out)]
           pos == IF grid_pc = "start" THEN GridFirst(grid_in.min_pos, grid_in.max_pos)
                  ELSE GridAfter([x |-> int(last.x), y |-> int(last.y), z |-> int(last.z)],
                                 grid_in.min_pos, grid_in.max_pos, grid_in.stride)
       IN IF pos = None
          THEN grid_pc' = "done" /\ UNCHANGED grid_out
          ELSE /\ grid_pc' = "running"
               /\ grid_out' = Append(grid_out, Vec(float(pos.x), float(pos.y), float(pos.z)))
    /\ UNCHANGED <<grid_in, nonGridVars>>

NextGrid == GridNext

SpecGrid == InitGrid /\ [][NextGrid]_vars

\* the points yielded so far
Yielded == {grid_out[i] : i \in 1..Len(grid_out)}

(***************************************************************************)
(* C27  Vec.iter_grid(min, max, stride) is inclusive on both ends: for all *)
(* integer min <= max (componentwise) and every integer stride >= 1, the   *)
(* yielded points include the min corner and the max corner, every yielded *)
(* point lies inside the box, and each coordinate differs from min's by a  *)
(* multiple of stride.                                                     *)
(***************************************************************************)
GridInclusive ==
    /\ grid_pc \in {"running", "done"} =>
         \A p \in Yielded : \A c \in {"x", "y", "z"} :
             /\ int(p[c]) >= int(grid_in.min_pos[c])
             /\ int(p[c]) <= int(grid_in.max_pos[c])
             /\ (int(p[c]) - int(grid_in.min_pos[c])) % grid_in.stride = 0
    /\ grid_pc = "done" =>
         /\ grid_in.min_pos \in Yielded
         /\ grid_in.max_pos \in Yielded

(***************************************************************************)
(* BSP.save on the file system: the writer that save opens, the file it    *)
(* replaces, and the exceptions that leave save part-way                   *)
(***************************************************************************)
\* the file the writer writes to until it is closed: a sibling of the
\* destination
TEMP_PATH == "map.bsp.tmp"

Paths == {SELF_FILENAME, "new.bsp", TEMP_PATH}

\* a path with no file, and a file with its bytes
Absent == [exists |-> FALSE, data |-> <<>>]

FileOf(bytes) == [exists |-> TRUE, data |-> bytes]

\* AtomicWriter.__enter__: the temporary file is created empty, the
\* destination is left alone
AtomicWriter_enter(files) == [files EXCEPT ![TEMP_PATH] = FileOf(<<>>)]

\* file.write, file.seek: the bytes reach the temporary file
AtomicWriter_write(files, buf) == [files EXCEPT ![TEMP_PATH] = FileOf(buf)]

\* AtomicWriter.__exit__: without an exception the temporary file is renamed
\* over the destination, with one it is unlinked
AtomicWriter_exit(files, dest, raised) ==
    IF raised THEN [files EXCEPT ![TEMP_PATH] = Absent]
    ELSE [files EXCEPT ![dest] = files[TEMP_PATH], ![TEMP_PATH] = Absent]

\* struct.pack('H', v) raises struct.error outside 0..65535
PackableU16(v) == v >= 0 /\ v <= 65535

\* the directory entry of the game lump can be packed
GameLumpPackable(g) == PackableU16(g.flags) /\ PackableU16(g.version)

\* the game-lump directory can be packed
GameLumpsPackable(game_lumps) ==
    \A k \in 1..Len(game_lumps) : GameLumpPackable(game_lumps[k])

\* the GAME_LUMP region up to where struct.pack raises: the count, and the
\* directory entries of the game lumps before the first that cannot be
\* packed
SaveGameLumpRaised(w, game_lumps) ==
    LET bad == CHOOSE k \in 1..Len(game_lumps) :
                 /\ ~GameLumpPackable(game_lumps[k])
                 /\ \A j \in 1..(k - 1) : GameLumpPackable(game_lumps[j])
        w1 == WritePayload(w, CountKey, PackI32(Len(game_lumps)))
    IN SaveGameDir(w1, SubSeq(game_lumps, 1, bad - 1), 1)

\* save up to the map revision: the header, the 64 directory entries with
\* deferred offsets, the revision
SaveHeader(obj) ==
    LET w1 == Write(NewWriter, BSP_MAGIC \o PackI32(SaveVersion(obj.version)))
        w2 == SaveHeaders(w1, obj, 0)
    IN Write(w2, PackI32(obj.map_revision))

\* one turn of "Then each lump"
SavePayload(w, obj, k) ==
    LET lump_name == LUMP_WRITE_ORDER[k]
    IN IF lump_name = GAME_LUMP THEN SaveGameLump(w, obj.game_lumps)
       ELSE SaveLump(w, lump_name, obj.lumps[lump_name].data)

\* the objects that are saved: read from a file, or read and then given a
\* first game lump whose flags, or a last one whose version, do not fit 16
\* bits
SaveInputFiles ==
    { MakeFile(p) : p \in { q \in GoodParams : q.version = 20 /\ q.lumpver = 0 } }

BadFlags(obj) == [obj EXCEPT !.game_lumps[1].flags = 65536]

BadVersion(obj) == [obj EXCEPT !.game_lumps[Len(obj.game_lumps)].version = 65536]

SaveInputObjects(f) ==
    LET obj == Read(f, NoVersion).obj
    IN {obj} \cup (IF Len(obj.game_lumps) > 0 THEN {BadFlags(obj), BadVersion(obj)} ELSE {})

\* the filename argument
InputFilenames == {None, Str(""), Str("new.bsp")}

InitSave ==
    /\ ContainerIdle /\ PropsIdle /\ EntsIdle /\ PakIdle /\ VisIdle /\ TexIdle
    /\ AngIdle /\ RotIdle /\ AxIdle /\ GridIdle
    /\ \E f \in SaveInputFiles, other \in {Absent, FileOf(EmptyBsp)} :
         /\ sv_bsp \in SaveInputObjects(f)
         /\ sv_files = [p \in Paths |->
                          IF p = SELF_FILENAME THEN FileOf(f)
                          ELSE IF p = TEMP_PATH THEN Absent ELSE other]
    /\ sv_old = sv_files
    /\ sv_filename \in InputFilenames
    /\ sv_pc = "call"
    /\ sv_dest = None
    /\ sv_w = NewWriter
    /\ sv_k = 0
    /\ sv_err = "none"

\* with AtomicWriter(filename or self.filename, is_bytes=True) as file
SaveEnter ==
    /\ sv_pc = "call"
    /\ sv_dest' = Str(SaveDest(sv_filename, SELF_FILENAME))
    /\ sv_files' = AtomicWriter_enter(sv_files)
    /\ sv_w' = NewWriter
    /\ sv_pc' = "open"
    /\ UNCHANGED <<sv_bsp, sv_filename, sv_old, sv_k, sv_err, nonSaveVars>>

\* the header, the directory and the map revision are written
SaveWriteHeader ==
    /\ sv_pc = "open"
    /\ sv_w' = SaveHeader(sv_bsp)
    /\ sv_files' = AtomicWriter_write(sv_files, sv_w'.buf)
    /\ sv_k' = 1
    /\ sv_pc' = "lumps"
    /\ UNCHANGED <<sv_bsp, sv_filename, sv_dest, sv_old, sv_err, nonSaveVars>>

\* the next lump of LUMP_WRITE_ORDER is written
SaveWritePayload ==
    /\ sv_pc = "lumps"
    /\ sv_k <= LUMP_COUNT
    /\ LUMP_WRITE_ORDER[sv_k] = GAME_LUMP => GameLumpsPackable(sv_bsp.game_lumps)
    /\ sv_w' = SavePayload(sv_w, sv_bsp, sv_k)
    /\ sv_files' = AtomicWriter_write(sv_files, sv_w'.buf)
    /\ sv_k' = sv_k + 1
    /\ UNCHANGED <<sv_pc, sv_bsp, sv_filename, sv_dest, sv_old, sv_err, nonSaveVars>>

\* defer.write()
SaveWriteDeferred ==
    /\ sv_pc = "lumps"
    /\ sv_k > LUMP_COUNT
    /\ sv_w' = WriteDeferred(sv_w)
    /\ sv_files' = AtomicWriter_write(sv_files, sv_w'.buf)
    /\ sv_pc' = "patched"
    /\ UNCHANGED <<sv_bsp, sv_filename, sv_dest, sv_old, sv_k, sv_err, nonSaveVars>>

\* the with block ends: the writer commits
SaveExit ==
    /\ sv_pc = "patched"
    /\ sv_files' = AtomicWriter_exit(sv_files, sv_dest.value, FALSE)
    /\ sv_pc' = "done"
    /\ UNCHANGED <<sv_bsp, sv_filename, sv_dest, sv_old, sv_w, sv_k, sv_err, nonSaveVars>>

\* struct.pack raises on the game-lump directory, after the count and the
\* entries before the one that cannot be packed have been written: the
\* exception leaves the with block
SaveRaiseStructError ==
    /\ sv_pc = "lumps"
    /\ sv_k <= LUMP_COUNT
    /\ LUMP_WRITE_ORDER[sv_k] = GAME_LUMP
    /\ ~GameLumpsPackable(sv_bsp.game_lumps)
    /\ sv_w' = SaveGameLumpRaised(sv_w, sv_bsp.game_lumps)
    /\ sv_files' = AtomicWriter_exit(AtomicWriter_write(sv_files, sv_w'.buf), sv_dest.value, TRUE)
    /\ sv_err' = "struct.error"
    /\ sv_pc' = "failed"
    /\ UNCHANGED <<sv_bsp, sv_filename, sv_dest, sv_old, sv_k, nonSaveVars>>

\* a write to the file raises OSError (the disk is full): while the header,
\* a lump or the deferred values are written
SaveRaiseOSError ==
    /\ sv_pc \in {"open", "lumps"}
    /\ sv_files' = AtomicWriter_exit(sv_files, sv_dest.value, TRUE)
    /\ sv_err' = "OSError"
    /\ sv_pc' = "failed"
    /\ UNCHANGED <<sv_bsp, sv_filename, sv_dest, sv_old, sv_w, sv_k, nonSaveVars>>

NextSave ==
    \/ SaveEnter
    \/ SaveWriteHeader
    \/ SaveWritePayload
    \/ SaveWriteDeferred
    \/ SaveExit
    \/ SaveRaiseStructError
    \/ SaveRaiseOSError

SpecSave == InitSave /\ [][NextSave]_vars

\* the path the caller asked save to write: the one named, or the object's
\* own file when none was named
AskedPath == IF sv_filename \in {None, Str("")} THEN "map.bsp" ELSE sv_filename.value

\* C28: save is atomic at the destination: until save completes, and when
\* it fails (in the header, in a lump, in the deferred values), the file at
\* the destination is the one that was there before; when it completes the
\* destination holds the whole new file; no other file is touched and no
\* temporary file is left
SaveAtomic ==
    sv_pc # "idle" =>
      /\ sv_pc # "done" => sv_files[AskedPath] = sv_old[AskedPath]
      /\ sv_pc = "done" => sv_files[AskedPath] = FileOf(Save(sv_bsp).buf)
      /\ \A p \in Paths \ {AskedPath, TEMP_PATH} : sv_files[p] = sv_old[p]
      /\ sv_pc \in {"done", "failed"} => ~sv_files[TEMP_PATH].exists

\* C28 witness: save failed after part of a file that differs from the old
\* one had been written, to a destination that existed
SaveAtomicWitness ==
    /\ sv_pc = "failed"
    /\ sv_k > 1
    /\ Len(sv_w.buf) > 0
    /\ sv_old[AskedPath].exists
    /\ sv_w.buf # SubSeq(sv_old[AskedPath].data, 1, Len(sv_w.buf))

(***************************************************************************)
(* C29  After read_ent_data returns for a lump that ends with the line of  *)
(* the NUL, vmf.map_ver is the integer of the worldspawn's mapversion      *)
(* keyvalue whenever that keyvalue is an integer.                          *)
(***************************************************************************)
EndsWithNulLine(ent_data) ==
    LET lines == splitlines(ent_data, 1)
    IN Len(lines) > 0 /\ lines[Len(lines)] = NUL

MapVersionStored ==
    (/\ ent_pc = "read"
     /\ EndsWithNulLine(ent_lump)
     /\ IsInt(Entity_getitem(ent_vmf.spawn, MAPVERSION)))
    => ent_vmf.map_ver = IntValue(Entity_getitem(ent_vmf.spawn, MAPVERSION))

(***************************************************************************)
(* C30  write_ent_data does not modify the VMF it is given: whatever       *)
(* use_comma_sep is, after the call the keyvalues of every entity and the  *)
(* fields of every output, comma_sep among them, are as before the call.   *)
(***************************************************************************)
WriteLeavesVMF ==
    ent_pc = "written" => ent_vmf = FirstVMF

====
